---- MODULE Spec2Model ----
(***************************************************************************)
(* Model of the aida room-client voice path: the wake word detector        *)
(* (src/room-client/src/voice/wake_word_detector.py), the modular voice    *)
(* command handler (src/room-client/src/voice/handler.py), the voice       *)
(* activity filter (src/room-client/src/audio/vad.py) and the legacy       *)
(* handler (src/room-client/voice_commands.py).                            *)
(*                                                                         *)
(* Python strings are sequences of one-character strings; floats that the  *)
(* code only compares (similarity ratios, thresholds) are exact rationals  *)
(* <<numerator, denominator>>; time.time() is the integer clock `now`.     *)
(***************************************************************************)
EXTENDS Integers, Sequences, FiniteSets, TLC

VARIABLES
    handler,               \* which VoiceCommandHandler class runs: "modular" | "legacy"
    now,                   \* the wall clock read by time.time()
    wake_word_detected,    \* self.wake_word_detected
    wake_word_only_mode,   \* self.wake_word_only_mode
    last_wake_word_time,   \* self.last_wake_word_time
    conversation_history,  \* self.conversation_history
    audio_chunks,          \* _listen_loop: audio_chunks / audio_buffer
    silence_count,         \* _listen_loop: silence_count
    speech_detected,       \* _listen_loop: speech_detected / recording_active
    timeout_check_counter, \* legacy _listen_loop: timeout_check_counter
    cycle,                 \* observation: what the last processing cycle did
    loop,                  \* observation: what the last loop iteration did
    calls,                 \* observation: number of backend dispatch requests made
    produced,              \* observation: every entry appended to the history so far
    recording,             \* self.recording, the stop flag of the loop
    stream,                \* self.stream: 0 for None, or the number of a stream
    streams,               \* the audio input streams opened so far
    workers,               \* the threads started on _listen_loop
    control,               \* the controller thread: its place in a call
    detector,              \* self.wake_word_detector: the matching profile
    detecting              \* a call of detect_wake_word: its place and its result

ThreadVars == <<recording, stream, streams, workers, control>>

DetectorVars == <<detector, detecting>>

vars == <<handler, now, wake_word_detected, wake_word_only_mode,
          last_wake_word_time, conversation_history, audio_chunks, silence_count,
          speech_detected, timeout_check_counter, cycle, loop, calls, produced,
          recording, stream, streams, workers, control, detector, detecting>>

(***************************************************************************)
(* Python str primitives                                                   *)
(***************************************************************************)
LowerCaseLetters ==
    <<"a", "b", "c", "d", "e", "f", "g", "h", "i", "j", "k", "l", "m",
      "n", "o", "p", "q", "r", "s", "t", "u", "v", "w", "x", "y", "z">>

UpperCaseLetters ==
    <<"A", "B", "C", "D", "E", "F", "G", "H", "I", "J", "K", "L", "M",
      "N", "O", "P", "Q", "R", "S", "T", "U", "V", "W", "X", "Y", "Z">>

Digits == {"0", "1", "2", "3", "4", "5", "6", "7", "8", "9"}

Range(s) == {s[i] : i \in 1..Len(s)}

SetMin(S) == CHOOSE x \in S : \A y \in S : x <= y

SetMax(S) == CHOOSE x \in S : \A y \in S : x >= y

\* str.lower() on one character
lower_char(c) ==
    IF c \in Range(UpperCaseLetters)
    THEN LowerCaseLetters[CHOOSE i \in 1..Len(UpperCaseLetters) : UpperCaseLetters[i] = c]
    ELSE c

\* str.upper() on one character
upper_char(c) ==
    IF c \in Range(LowerCaseLetters)
    THEN UpperCaseLetters[CHOOSE i \in 1..Len(LowerCaseLetters) : LowerCaseLetters[i] = c]
    ELSE c

\* str.lower()
lower(s) == [i \in 1..Len(s) |-> lower_char(s[i])]

\* the regular expression class \w
IsWordChar(c) ==
    c \in Range(LowerCaseLetters) \cup Range(UpperCaseLetters) \cup Digits \cup {"_"}

\* the regular expression class \s and the characters str.strip() removes
IsSpace(c) == c \in {" ", "\t", "\n"}

\* str.strip()
strip(s) ==
    LET keep == {i \in 1..Len(s) : ~IsSpace(s[i])}
    IN  IF keep = {} THEN <<>> ELSE SubSeq(s, SetMin(keep), SetMax(keep))

\* str.find(sub), 1-based: the first position of sub in s, 0 for Python's -1
find(s, sub) ==
    LET hits == {i \in 1..(Len(s) - Len(sub) + 1) : SubSeq(s, i, i + Len(sub) - 1) = sub}
    IN  IF hits = {} THEN 0 ELSE SetMin(hits)

\* token classes: "word" is a run of \w, "nonspace" a run of non-whitespace
InClass(class, c) == IF class = "word" THEN IsWordChar(c) ELSE ~IsSpace(c)

\* the end of the maximal run of characters of the class that starts at i
RECURSIVE RunEnd(_, _, _)
RunEnd(s, i, class) ==
    IF i < Len(s) /\ InClass(class, s[i + 1]) THEN RunEnd(s, i + 1, class) ELSE i

\* the maximal runs of characters of the class, in order, from position i
RECURSIVE RunsFrom(_, _, _)
RunsFrom(s, i, class) ==
    IF i > Len(s) THEN <<>>
    ELSE IF ~InClass(class, s[i]) THEN RunsFrom(s, i + 1, class)
    ELSE LET j == RunEnd(s, i, class)
         IN  <<SubSeq(s, i, j)>> \o RunsFrom(s, j + 1, class)

\* re.findall(r"\b\w+\b", text)
findall_words(text) == RunsFrom(text, 1, "word")

\* str.split() with no separator
split(text) == RunsFrom(text, 1, "nonspace")

\* " ".join(words)
RECURSIVE join(_)
join(words) ==
    IF words = <<>> THEN <<>>
    ELSE IF Len(words) = 1 THEN words[1]
    ELSE words[1] \o <<" ">> \o join(Tail(words))

\* s.startswith(prefix)
startswith(s, prefix) ==
    Len(prefix) <= Len(s) /\ SubSeq(s, 1, Len(prefix)) = prefix

\* s[n:] for 0 <= n (Python index n, so the first n characters are dropped)
drop(s, n) == SubSeq(s, n + 1, Len(s))

(***************************************************************************)
(* difflib.SequenceMatcher(None, a, b).ratio(), as the rational 2*M / T    *)
(***************************************************************************)
\* the length of the common prefix of a[i..ahi] and b[j..bhi]
RECURSIVE MatchLen(_, _, _, _, _, _)
MatchLen(a, i, ahi, b, j, bhi) ==
    IF i > ahi \/ j > bhi \/ a[i] # b[j] THEN 0
    ELSE 1 + MatchLen(a, i + 1, ahi, b, j + 1, bhi)

\* find_longest_match(alo, ahi, blo, bhi): of the longest matching blocks, the
\* one starting earliest in a and, among those, earliest in b
find_longest_match(a, alo, ahi, b, blo, bhi) ==
    LET blocks == {<<i, j, MatchLen(a, i, ahi, b, j, bhi)>> : i \in alo..ahi, j \in blo..bhi}
        best   == SetMax({blk[3] : blk \in blocks})
        besti  == SetMin({blk[1] : blk \in {x \in blocks : x[3] = best}})
        bestj  == SetMin({blk[2] : blk \in {x \in blocks : x[3] = best /\ x[1] = besti}})
    IN  <<besti, bestj, best>>

\* the total size of get_matching_blocks() within a[alo..ahi], b[blo..bhi]
RECURSIVE matching_size(_, _, _, _, _, _)
matching_size(a, alo, ahi, b, blo, bhi) ==
    IF alo > ahi \/ blo > bhi THEN 0
    ELSE LET blk == find_longest_match(a, alo, ahi, b, blo, bhi)
             i == blk[1]
             j == blk[2]
             k == blk[3]
         IN  IF k = 0 THEN 0
             ELSE k + matching_size(a, alo, i - 1, b, blo, j - 1)
                    + matching_size(a, i + k, ahi, b, j + k, bhi)

RECURSIVE GCD(_, _)
GCD(x, y) == IF y = 0 THEN x ELSE GCD(y, x % y)

\* the rational n / d (d > 0) in lowest terms
Rat(n, d) == <<n \div GCD(n, d), d \div GCD(n, d)>>

\* SequenceMatcher(None, a, b).ratio()
ratio(a, b) ==
    IF Len(a) + Len(b) = 0 THEN <<1, 1>>
    ELSE Rat(2 * matching_size(a, 1, Len(a), b, 1, Len(b)), Len(a) + Len(b))

\* comparisons of rationals <<n, d>> with d > 0
RatGe(x, y) == x[1] * y[2] >= y[1] * x[2]

RatGt(x, y) == x[1] * y[2] > y[1] * x[2]

RatMax(x, y) == IF RatGe(x, y) THEN x ELSE y

(***************************************************************************)
(* WakeWordDetector (wake_word_detector.py).  A detector is the record     *)
(* [wake_word, similarity_threshold, phonetic_matching, variations,        *)
(*  soundex_codes]; Python's None is NoneWord / "None".                    *)
(***************************************************************************)
NoneWord == <<"None">>

s_apartment == <<"a", "p", "a", "r", "t", "m", "e", "n", "t">>

\* the literal list of _build_variations for the wake word "apartment"
apartment_variations ==
    {<<"a", "p", "a", "r", "t", "m", "e", "n", "t">>,
     <<"a", "p", "a", "r", "t", "e", "m", "e", "n", "t">>,
     <<"a", "p", "a", "r", "t", "a", "m", "e", "n", "t">>,
     <<"a", "p", "p", "a", "r", "t", "m", "e", "n", "t">>,
     <<"a", "p", "a", "r", "t", "m", "a", "n", "t">>,
     <<"a", "p", "a", "r", "t", "e", "m", "e", "n", "t">>,
     <<"a", "p", "a", "r", "t", "m", "i", "n", "t">>,
     <<"a", "p", "a", "r", "t", "e", "n", "t">>,
     <<"a", "p", "e", "r", "t", "m", "e", "n", "t">>,
     <<"a", "p", "r", "a", "t", "m", "e", "n", "t">>,
     <<"a", " ", "p", "a", "r", "t", " ", "m", "i", "n", "t">>,
     <<"a", " ", "p", "a", "r", "t", " ", "m", "e", "n", "t">>,
     <<"a", "p", "a", "r", "t", " ", "m", "i", "n", "t">>,
     <<"a", "p", "a", "r", "t", " ", "m", "e", "n", "t">>}

\* the substitutions table of _generate_phonetic_variations: <<original, replacements>>
substitutions ==
    << << <<"a">>, << <<"a", "h">>, <<"u", "h">>, <<"e">> >> >>,
      << <<"e">>, << <<"a">>, <<"i">>, <<"u", "h">> >> >>,
      << <<"i">>, << <<"e">>, <<"e", "e">>, <<"i", "h">> >> >>,
      << <<"o">>, << <<"o", "h">>, <<"u", "h">>, <<"a", "w">> >> >>,
      << <<"u">>, << <<"u", "h">>, <<"o", "o">>, <<"a", "h">> >> >>,
      << <<"m", "e", "n", "t">>, << <<"m", "i", "n", "t">>, <<"m", "a", "n", "t">>,
             <<"m", "u", "n", "t">>, <<"m", "e", "n", "t">> >> >>,
      << <<"p", "a", "r", "t">>, << <<"p", "a", "r", "t">>, <<"p", "o", "r", "t">>, <<"p", "e", "r", "t">> >> >>,
      << <<"a", "p", "a", "r", "t">>, << <<"a", " ", "p", "a", "r", "t">>, <<"a", "p", "a", "r", "t">>, <<"a", "p", "o", "r", "t">> >> >> >>

\* _fuzzy_match: common_words_blacklist
common_words_blacklist ==
    {<<"i", "m", "p", "o", "r", "t", "a", "n", "t">>,
     <<"d", "e", "p", "a", "r", "t", "m", "e", "n", "t">>,
     <<"c", "o", "m", "p", "a", "r", "t", "m", "e", "n", "t">>,
     <<"t", "r", "e", "a", "t", "m", "e", "n", "t">>,
     <<"a", "r", "g", "u", "m", "e", "n", "t">>,
     <<"d", "o", "c", "u", "m", "e", "n", "t">>,
     <<"m", "o", "v", "e", "m", "e", "n", "t">>,
     <<"m", "o", "m", "e", "n", "t">>,
     <<"p", "a", "r", "e", "n", "t">>,
     <<"a", "p", "p", "a", "r", "e", "n", "t">>,
     <<"s", "t", "a", "t", "e", "m", "e", "n", "t">>,
     <<"e", "l", "e", "m", "e", "n", "t">>,
     <<"a", "g", "r", "e", "e", "m", "e", "n", "t">>,
     <<"i", "m", "p", "r", "o", "v", "e", "m", "e", "n", "t">>,
     <<"d", "e", "v", "e", "l", "o", "p", "m", "e", "n", "t">>,
     <<"g", "o", "v", "e", "r", "n", "m", "e", "n", "t">>}


\* str.replace(old, new): every non-overlapping occurrence, left to right
RECURSIVE replace(_, _, _)
replace(s, old, new) ==
    IF Len(s) < Len(old) \/ old = <<>> THEN s
    ELSE IF startswith(s, old) THEN new \o replace(drop(s, Len(old)), old, new)
    ELSE <<s[1]>> \o replace(Tail(s), old, new)

\* _generate_phonetic_variations(word)
generate_phonetic_variations(word) ==
    {replace(word, substitutions[k][1], substitutions[k][2][r]) :
        <<k, r>> \in {<<k2, r2>> \in (1..Len(substitutions)) \X (1..4) :
                        /\ r2 <= Len(substitutions[k2][2])
                        /\ find(word, substitutions[k2][1]) # 0}}

\* _build_variations started from the empty set instead of {self.wake_word}
build_variations_without_wake_word(wake_word, custom_variations) ==
    {strip(lower(custom_variations[i])) : i \in 1..Len(custom_variations)}
    \cup (IF wake_word = s_apartment THEN apartment_variations ELSE {})
    \cup generate_phonetic_variations(wake_word)

\* _build_variations(custom_variations), with self.wake_word already normalised
build_variations(wake_word, custom_variations) ==
    {wake_word}
    \cup {strip(lower(custom_variations[i])) : i \in 1..Len(custom_variations)}
    \cup (IF wake_word = s_apartment THEN apartment_variations ELSE {})
    \cup generate_phonetic_variations(wake_word)

\* soundex_map; "" for a character that has no code
soundex_map(c) ==
    IF c \in {"b", "f", "p", "v"} THEN "1"
    ELSE IF c \in {"c", "g", "j", "k", "q", "s", "x", "z"} THEN "2"
    ELSE IF c \in {"d", "t"} THEN "3"
    ELSE IF c = "l" THEN "4"
    ELSE IF c \in {"m", "n"} THEN "5"
    ELSE IF c = "r" THEN "6"
    ELSE ""

\* the loop of _soundex over word[1:], from position i, with the code so far
RECURSIVE soundex_scan(_, _, _)
soundex_scan(word, i, result) ==
    IF i > Len(word) THEN result
    ELSE LET code == soundex_map(word[i])
         IN  IF code # "" /\ result[Len(result)] # code
             THEN soundex_scan(word, i + 1, Append(result, code))
             ELSE soundex_scan(word, i + 1, result)

\* _soundex(word)
soundex(word) ==
    IF word = <<>> THEN <<"0", "0", "0", "0">>
    ELSE LET w == lower(word)
             result == soundex_scan(w, 2, <<upper_char(w[1])>>)
         IN  SubSeq(result \o <<"0", "0", "0">>, 1, 4)

\* re.sub(r"[^a-z]", "", variation)
only_a_z(s) == SelectSeq(s, LAMBDA c : c \in Range(LowerCaseLetters))

\* _build_soundex_codes() over a variation set
build_soundex_codes(variations) ==
    {soundex(only_a_z(v)) : v \in {x \in variations : only_a_z(x) # <<>>}}

\* WakeWordDetector.__init__; the code leaves soundex_codes unset when
\* phonetic matching is off and never reads it then
WakeWordDetector(wake_word, similarity_threshold, phonetic_matching, custom_variations) ==
    LET ww == strip(lower(wake_word))
        variations == build_variations(ww, custom_variations)
    IN  [wake_word |-> ww,
         similarity_threshold |-> similarity_threshold,
         phonetic_matching |-> phonetic_matching,
         variations |-> variations,
         soundex_codes |-> IF phonetic_matching THEN build_soundex_codes(variations) ELSE {}]

\* _no_detection()
no_detection ==
    [detected |-> FALSE, method |-> "None", matched_word |-> NoneWord,
     confidence |-> <<0, 1>>, similarity_score |-> <<0, 1>>]

\* a detection result dictionary
detection(method, matched_word, confidence) ==
    [detected |-> TRUE, method |-> method, matched_word |-> matched_word,
     confidence |-> confidence, similarity_score |-> confidence]

\* _fuzzy_match: min_score for a word
min_score(word, threshold) ==
    IF Len(word) > 6 THEN RatMax(<<3, 4>>, threshold) ELSE threshold

\* the scores of a word with neither the blacklist nor the test of the
\* first letter, the two guards against false positives
fuzzy_scores_unguarded(word, D) ==
    {sc \in {ratio(word, v) : v \in {x \in D.variations :
                                        Len(word) >= 4 /\ Len(x) >= 4}} :
        RatGe(sc, min_score(word, D.similarity_threshold))}

\* the scores of a word without the blacklist
fuzzy_scores_unfiltered(word, D) ==
    {sc \in {ratio(word, v) : v \in {x \in D.variations :
                                        /\ Len(word) >= 4
                                        /\ Len(x) >= 4
                                        /\ word[1] = x[1]}} :
        RatGe(sc, min_score(word, D.similarity_threshold))}

\* _fuzzy_match: the scores of word that pass the loop's guards
fuzzy_scores(word, D) ==
    IF word \in common_words_blacklist THEN {}
    ELSE {sc \in {ratio(word, v) : v \in {x \in D.variations :
                                            /\ Len(word) >= 4
                                            /\ Len(x) >= 4
                                            /\ word[1] = x[1]}} :
            RatGe(sc, min_score(word, D.similarity_threshold))}

\* the largest of a non-empty set of rationals
RatSetMax(S) == CHOOSE x \in S : \A y \in S : RatGe(x, y)

\* _fuzzy_match(words): best_score is the largest passing score above 0.0 and
\* best_word the first word that reaches it
fuzzy_match(words, D) ==
    LET scores == UNION {fuzzy_scores(words[i], D) : i \in 1..Len(words)}
        positive == {sc \in scores : RatGt(sc, <<0, 1>>)}
        best_score == IF positive = {} THEN <<0, 1>> ELSE RatSetMax(positive)
        best_word ==
            IF positive = {} THEN NoneWord
            ELSE words[SetMin({i \in 1..Len(words) :
                                 \E sc \in fuzzy_scores(words[i], D) :
                                    RatGe(sc, best_score)})]
    IN  IF RatGe(best_score, D.similarity_threshold)
        THEN detection("fuzzy", best_word, best_score)
        ELSE no_detection

\* _phonetic_match(words)
phonetic_match(words, D) ==
    LET hits == {i \in 1..Len(words) :
                    Len(words[i]) >= 3 /\ soundex(words[i]) \in D.soundex_codes}
    IN  IF hits = {} THEN no_detection
        ELSE detection("phonetic", words[SetMin(hits)], <<4, 5>>)

\* _multiword_match: clean_text
clean_text(text) ==
    join(split([i \in 1..Len(text) |->
                  IF IsWordChar(text[i]) \/ IsSpace(text[i]) THEN text[i] ELSE " "]))

\* _multiword_match(text): the loop returns at the first variation of the set
\* that passes, and a Python set of str has no fixed iteration order, so the
\* result is any one of the passing variations
multiword_match(text, D) ==
    LET passing == {v \in D.variations :
                      /\ find(v, <<" ">>) # 0
                      /\ RatGe(ratio(clean_text(text), v), D.similarity_threshold)}
    IN  IF passing = {} THEN {no_detection}
        ELSE {detection("multiword", v, ratio(clean_text(text), v)) : v \in passing}

\* the matcher returning the last exact token instead of the first
detect_wake_word_last_exact(transcribed_text, D) ==
    LET text == strip(lower(transcribed_text))
        words == findall_words(text)
        exact == {i \in 1..Len(words) : words[i] \in D.variations}
        best_fuzzy == fuzzy_match(words, D)
        best_phonetic == phonetic_match(words, D)
    IN  IF transcribed_text = <<>> THEN {no_detection}
        ELSE IF exact # {} THEN {detection("exact", words[SetMax(exact)], <<1, 1>>)}
        ELSE IF best_fuzzy.detected THEN {best_fuzzy}
        ELSE IF D.phonetic_matching /\ best_phonetic.detected THEN {best_phonetic}
        ELSE multiword_match(text, D)

\* the matcher trying the phonetic strategy before the fuzzy one
detect_wake_word_phonetic_first(transcribed_text, D) ==
    LET text == strip(lower(transcribed_text))
        words == findall_words(text)
        exact == {i \in 1..Len(words) : words[i] \in D.variations}
        best_fuzzy == fuzzy_match(words, D)
        best_phonetic == phonetic_match(words, D)
    IN  IF transcribed_text = <<>> THEN {no_detection}
        ELSE IF exact # {} THEN {detection("exact", words[SetMin(exact)], <<1, 1>>)}
        ELSE IF D.phonetic_matching /\ best_phonetic.detected THEN {best_phonetic}
        ELSE IF best_fuzzy.detected THEN {best_fuzzy}
        ELSE multiword_match(text, D)

\* detect_wake_word(transcribed_text): the set of results it can return
detect_wake_word(transcribed_text, D) ==
    LET text == strip(lower(transcribed_text))
        words == findall_words(text)
        exact == {i \in 1..Len(words) : words[i] \in D.variations}
        best_fuzzy == fuzzy_match(words, D)
        best_phonetic == phonetic_match(words, D)
    IN  IF transcribed_text = <<>> THEN {no_detection}
        ELSE IF exact # {} THEN {detection("exact", words[SetMin(exact)], <<1, 1>>)}
        ELSE IF best_fuzzy.detected THEN {best_fuzzy}
        ELSE IF D.phonetic_matching /\ best_phonetic.detected THEN {best_phonetic}
        ELSE multiword_match(text, D)

\* add_variation without the normalisation of its argument
add_to_variations_unnormalized(D, variation) ==
    IF variation # <<>> /\ variation \notin D.variations
    THEN [D EXCEPT !.variations = @ \cup {variation}]
    ELSE D

\* add_variation(variation): the first statement that changes the profile
add_to_variations(D, variation) ==
    LET clean_var == strip(lower(variation))
    IN  IF clean_var # <<>> /\ clean_var \notin D.variations
        THEN [D EXCEPT !.variations = @ \cup {clean_var}]
        ELSE D

\* add_variation(variation): the second statement that changes the profile
add_to_soundex_codes(D, variation) ==
    LET clean_word == only_a_z(strip(lower(variation)))
    IN  IF D.phonetic_matching /\ clean_word # <<>>
        THEN [D EXCEPT !.soundex_codes = @ \cup {soundex(clean_word)}]
        ELSE D

\* add_variation(variation), run without interruption
add_variation(D, variation) ==
    LET added == add_to_variations(D, variation)
    IN  IF added = D THEN D ELSE add_to_soundex_codes(added, variation)

\* no call of detect_wake_word is under way; seen is the variation set as an
\* iteration found it when it began
NoDetecting ==
    [stage |-> "idle", text |-> <<>>, seen |-> {}, result |-> no_detection]

(***************************************************************************)
(* Configuration and bounds                                                *)
(***************************************************************************)
\* self.max_history
max_history == 10

\* self.wake_word_timeout, in seconds
wake_word_timeout == 120

\* filter_audio_chunks(chunks, min_speech_chunks=3)
min_speech_chunks == 3

\* legacy _process_recorded_audio: len(audio_chunks) < 10 is too short
min_audio_chunks == 10

\* legacy _listen_loop: the timeout is checked every 100 iterations
timeout_check_interval == 100

\* config "silence_threshold" (default 40), scaled down; like the default it
\* is large enough for an utterance of a few speech frames to reach
\* min_audio_chunks frames
silence_threshold == 8

\* the clock runs from its start to MaxElapsed seconds later
MaxElapsed == 121

\* backend requests made in one run of the session specification
MaxCalls == 2

\* the number of commands dispatched one after another
MaxDispatches == 11

\* frames read in one run of the listening specification
MaxFrames == 12

s_aida == <<"a", "i", "d", "a">>

s_and_then == <<"a", "n", "d", " ", "t", "h", "e", "n">>

s_then == <<"t", "h", "e", "n">>

\* the modular handler's detector, built from the configuration
\* wake_word = "apartment", wake_word_variations = ["aida"], threshold 0.6,
\* phonetic matching on
wake_word_detector == WakeWordDetector(s_apartment, <<3, 5>>, TRUE, <<s_aida>>)

\* the legacy handler's self.wake_word
legacy_wake_word == s_apartment

(***************************************************************************)
(* Inputs: transcriptions, classified frames, backend replies              *)
(***************************************************************************)
t_aida == <<"a", "i", "d", "a">>

t_apartment == <<"a", "p", "a", "r", "t", "m", "e", "n", "t">>

t_wake_cmd ==
    <<"A", "p", "a", "r", "t", "m", "e", "n", "t", " ", "t", "u", "r", "n", " ",
      "o", "n", " ", "t", "h", "e", " ", "l", "i", "g", "h", "t", "s">>

t_cmd == <<"t", "u", "r", "n", " ", "o", "n", " ", "l", "i", "g", "h", "t", "s">>

t_cmd_wake ==
    <<"l", "i", "g", "h", "t", "s", " ", "o", "n", " ",
      "a", "p", "a", "r", "t", "m", "e", "n", "t">>

t_aida_cmd ==
    <<"a", "i", "d", "a", ",", " ", "t", "h", "e", "n", " ", "t", "u", "r", "n", " ",
      "o", "f", "f", " ", "t", "h", "e", " ", "t", "v">>

t_blank == <<" ">>

r_ok == <<"o", "k">>

\* what a speaker says
Texts == {t_aida, t_apartment, t_wake_cmd, t_cmd, t_cmd_wake, t_aida_cmd}

\* the results of stt_engine.transcribe_file (FasterWhisperSTT): the stripped
\* text with success, the empty text, a failure, or a raised OSError
EngineResults ==
    {[available |-> TRUE, raised |-> FALSE, success |-> TRUE, text |-> t] :
        t \in Texts \cup {<<>>}}
    \cup {[available |-> TRUE, raised |-> FALSE, success |-> FALSE, text |-> <<>>],
          [available |-> TRUE, raised |-> TRUE, success |-> FALSE, text |-> <<>>]}

\* the legacy native engine: the same results, or no engine at all
NativeResults ==
    EngineResults
    \cup {[available |-> FALSE, raised |-> FALSE, success |-> FALSE, text |-> <<>>]}

\* the legacy remote transcription: any text of the response, or a failure
RemoteResults ==
    {[ok |-> TRUE, text |-> t] : t \in Texts \cup {<<>>, t_blank}}
    \cup {[ok |-> FALSE, text |-> <<>>]}

\* the backend's answers to a dispatch: a request error, a non-200 status, a
\* 200 without data, a 200 with an empty response, a 200 with a response
Replies ==
    {[error |-> TRUE, status |-> 0, has_data |-> FALSE, response |-> <<>>],
     [error |-> FALSE, status |-> 500, has_data |-> FALSE, response |-> <<>>],
     [error |-> FALSE, status |-> 200, has_data |-> FALSE, response |-> <<>>],
     [error |-> FALSE, status |-> 200, has_data |-> TRUE, response |-> <<>>],
     [error |-> FALSE, status |-> 200, has_data |-> TRUE, response |-> r_ok]}

\* the answers a processing cycle is given: one of each kind the handlers tell
\* apart there (no answer, an answer without a response text, an answer)
CycleReplies ==
    {reply \in Replies : reply.error \/ (reply.status = 200 /\ reply.has_data)}

\* an utterance as the segmenter finalizes it: n speech frames and the
\* trailing silence
Utterance(n) ==
    [i \in 1..(n + silence_threshold) |-> IF i <= n THEN "speech" ELSE "silence"]

\* _transcribe_audio with the calls it makes: the native engine when
\* "self.use_native_stt and self.native_stt", then _transcribe_audio_backend
\* unless the native text is returned
transcribe_audio(native, remote) ==
    IF native.available /\ ~native.raised /\ native.success /\ strip(native.text) # <<>>
    THEN [text |-> strip(native.text), native_calls |-> 1, remote_calls |-> 0]
    ELSE [text |-> IF remote.ok THEN remote.text ELSE <<>>,
          native_calls |-> IF native.available THEN 1 ELSE 0,
          remote_calls |-> 1]

\* _transcribe_audio: the native engine first, then the backend
legacy_transcribe_audio(native, remote) == transcribe_audio(native, remote).text

\* the numbers of speech frames of the utterances handed to a processing
\* cycle: too short for either handler, long enough for the legacy one, long
\* enough for both
SpeechFrames == 1 .. min_speech_chunks

\* the texts a cycle can meet
Transcriptions == Texts \cup {<<>>, t_blank}

\* the values _transcribe_audio can return
LegacyTranscriptions ==
    {legacy_transcribe_audio(native, remote) :
        native \in NativeResults, remote \in RemoteResults}

\* the detector's possible results for each text, computed once
Detections == [t \in Transcriptions |-> detect_wake_word(t, wake_word_detector)]

(***************************************************************************)
(* Command extraction (handler.py)                                         *)
(***************************************************************************)
\* str.lstrip(), the effect of a trailing \s* in a pattern anchored at the start
lstrip(s) ==
    LET keep == {i \in 1..Len(s) : ~IsSpace(s[i])}
    IN  IF keep = {} THEN <<>> ELSE SubSeq(s, SetMin(keep), Len(s))

\* re.sub(r"^(,|and then|then)\s*", "", command_text, flags=re.IGNORECASE)
remove_leading_connective(command_text) ==
    LET lc == lower(command_text)
        n == IF startswith(lc, <<",">>) THEN 1
             ELSE IF startswith(lc, s_and_then) THEN Len(s_and_then)
             ELSE IF startswith(lc, s_then) THEN Len(s_then)
             ELSE 0
    IN  IF n = 0 THEN command_text ELSE lstrip(drop(command_text, n))

\* the extraction with command_start = wake_word_index, the phrase's length
\* not added
extract_command_from_wake_word(full_text, matched_wake_word, variations) ==
    LET text_lower == lower(full_text)
        wake_word_lower == lower(matched_wake_word)
        wake_word_index == find(text_lower, wake_word_lower)
        words == findall_words(text_lower)
        hits == {i \in 1..Len(words) :
                    words[i] = wake_word_lower \/ words[i] \in variations}
    IN  IF wake_word_index = 0
        THEN IF hits # {}
             THEN join(SubSeq(words, SetMin(hits) + 1, Len(words)))
             ELSE full_text
        ELSE strip(remove_leading_connective(
                 strip(drop(full_text, wake_word_index - 1))))

\* the extraction without the re.sub that removes a leading comma or connective
extract_command_keeping_connective(full_text, matched_wake_word, variations) ==
    LET text_lower == lower(full_text)
        wake_word_lower == lower(matched_wake_word)
        wake_word_index == find(text_lower, wake_word_lower)
        words == findall_words(text_lower)
        hits == {i \in 1..Len(words) :
                    words[i] = wake_word_lower \/ words[i] \in variations}
    IN  IF wake_word_index = 0
        THEN IF hits # {}
             THEN join(SubSeq(words, SetMin(hits) + 1, Len(words)))
             ELSE full_text
        ELSE strip(drop(full_text, wake_word_index - 1 + Len(wake_word_lower)))

\* the extraction without the token search: the text is returned whenever
\* the phrase is not a substring
extract_command_without_token_search(full_text, matched_wake_word, variations) ==
    LET text_lower == lower(full_text)
        wake_word_lower == lower(matched_wake_word)
        wake_word_index == find(text_lower, wake_word_lower)
    IN  IF wake_word_index = 0
        THEN full_text
        ELSE strip(remove_leading_connective(
                 strip(drop(full_text, wake_word_index - 1 + Len(wake_word_lower)))))

\* _extract_command_after_wake_word(full_text, matched_wake_word)
extract_command_after_wake_word(full_text, matched_wake_word, variations) ==
    LET text_lower == lower(full_text)
        wake_word_lower == lower(matched_wake_word)
        wake_word_index == find(text_lower, wake_word_lower)
        words == findall_words(text_lower)
        hits == {i \in 1..Len(words) :
                    words[i] = wake_word_lower \/ words[i] \in variations}
    IN  IF wake_word_index = 0
        THEN IF hits # {}
             THEN join(SubSeq(words, SetMin(hits) + 1, Len(words)))
             ELSE full_text
        ELSE strip(remove_leading_connective(
                 strip(drop(full_text, wake_word_index - 1 + Len(wake_word_lower)))))

(***************************************************************************)
(* Legacy wake word handling (voice_commands.py)                           *)
(***************************************************************************)
\* _detect_wake_word(text)
legacy_detect_wake_word(text) ==
    text # <<>> /\ lower(legacy_wake_word) \in Range(split(lower(text)))

\* _process_wake_word_detection: remaining_text
legacy_remaining_text(transcription) ==
    strip(join(SelectSeq(split(lower(transcription)),
                         LAMBDA word : word # lower(legacy_wake_word))))


\* what the legacy matcher finds in each text, computed once
LegacyHeard ==
    [t \in Transcriptions \cup LegacyTranscriptions |->
        [detected |-> legacy_detect_wake_word(t),
         remaining |-> legacy_remaining_text(t)]]

\* the command the modular handler extracts from each text for each word the
\* detector can report, computed once
Commands ==
    [t \in Transcriptions |->
        [w \in {r.matched_word : r \in Detections[t]} \ {NoneWord} |->
            extract_command_after_wake_word(t, w, wake_word_detector.variations)]]

(***************************************************************************)
(* Session state and dispatch                                              *)
(***************************************************************************)
\* the handler's session fields as one record
Session ==
    [wake_word_detected |-> wake_word_detected,
     wake_word_only_mode |-> wake_word_only_mode,
     last_wake_word_time |-> last_wake_word_time,
     conversation_history |-> conversation_history]

user_entry(text) == [role |-> "user", content |-> text]

assistant_entry(text) == [role |-> "assistant", content |-> text]

\* history[-n:] for n > 0
last_entries(history, n) ==
    IF Len(history) <= n THEN history
    ELSE SubSeq(history, Len(history) - n + 1, Len(history))

\* what one processing cycle did: whether the utterance went on to
\* transcription, whether a usable text came back, the matcher's verdict, the
\* commands requested of the backend, and what the dispatch returned
NoCycle ==
    [kind |-> "none", mode |-> "none", expired |-> FALSE, forwarded |-> FALSE,
     transcribed |-> FALSE, text |-> <<>>, detected |-> FALSE, matched |-> NoneWord,
     sent |-> <<>>, result |-> NoneWord, raised |-> FALSE]

\* modular send_text_command: "keep history manageable"
trim_history(history) ==
    IF Len(history) > max_history * 2
    THEN last_entries(history, max_history)
    ELSE history

\* modular send_text_command(text): the history afterwards, the value returned
\* (the response text of the returned pair, or None) and the entries appended
send_text_command(history, text, reply) ==
    LET kept == trim_history(Append(history, user_entry(text)))
        none == [history |-> kept, result |-> NoneWord,
                 appended |-> <<user_entry(text)>>]
    IN  IF reply.error THEN none
        ELSE IF reply.status = 200
        THEN IF ~reply.has_data THEN none
             ELSE IF reply.response = <<>> THEN none
             ELSE [history |-> Append(kept, assistant_entry(reply.response)),
                   result |-> reply.response,
                   appended |-> <<user_entry(text), assistant_entry(reply.response)>>]
        ELSE none

\* legacy _send_ai_command: "keep history limited"
legacy_trim_history(history) ==
    IF Len(history) > max_history * 2
    THEN last_entries(history, max_history * 2)
    ELSE history

\* legacy _send_ai_command without "if not command_text.strip(): return None"
legacy_send_ai_command_unguarded(history, command_text, reply) ==
    IF reply.error
    THEN [history |-> history, result |-> NoneWord, posted |-> TRUE,
          appended |-> <<>>]
    ELSE IF reply.status = 200
    THEN LET ai_response == IF reply.has_data THEN reply.response ELSE <<>>
             entries == <<user_entry(command_text), assistant_entry(ai_response)>>
         IN  [history |-> legacy_trim_history(history \o entries),
              result |-> ai_response,
              posted |-> TRUE,
              appended |-> entries]
    ELSE [history |-> history, result |-> NoneWord, posted |-> TRUE,
          appended |-> <<>>]

\* legacy _send_ai_command(command_text): the history afterwards, the value
\* returned, whether a request was made and the entries appended
legacy_send_ai_command(history, command_text, reply) ==
    IF strip(command_text) = <<>>
    THEN [history |-> history, result |-> NoneWord, posted |-> FALSE,
          appended |-> <<>>]
    ELSE IF reply.error
    THEN [history |-> history, result |-> NoneWord, posted |-> TRUE,
          appended |-> <<>>]
    ELSE IF reply.status = 200
    THEN LET ai_response == IF reply.has_data THEN reply.response ELSE <<>>
             entries == <<user_entry(command_text), assistant_entry(ai_response)>>
         IN  [history |-> legacy_trim_history(history \o entries),
              result |-> ai_response,
              posted |-> TRUE,
              appended |-> entries]
    ELSE [history |-> history, result |-> NoneWord, posted |-> TRUE,
          appended |-> <<>>]

(***************************************************************************)
(* The modular handler's processing cycle (handler.py)                     *)
(***************************************************************************)
\* VoiceActivityDetector.is_speech that answers False without a classifier
is_speech_with_classifier_only(chunk) == chunk = "speech" \/ chunk = "OSError"

\* VoiceActivityDetector.is_speech on a frame, which the model carries as its
\* classification, as "OSError" when the classifier raises OSError on it
\* ("return True  # Assume speech on error"), or as "unclassified" when there
\* is no classifier ("if not self.vad: return True")
is_speech(chunk) == chunk \in {"speech", "OSError", "unclassified"}

\* VoiceActivityDetector.filter_audio_chunks(chunks, min_speech_chunks)
filter_audio_chunks(chunks, minimum) ==
    LET speech == {i \in 1..Len(chunks) : is_speech(chunks[i])}
    IN  IF Cardinality(speech) >= minimum
        THEN SubSeq(chunks, SetMin(speech), Len(chunks))
        ELSE <<>>

\* _is_wake_word_active() without the comparison with wake_word_timeout
is_wake_word_active_unchecked(S, t) == [active |-> S.wake_word_detected, state |-> S]

\* _is_wake_word_active() that always answers yes
is_wake_word_active_always(S, t) == [active |-> TRUE, state |-> S]

\* _is_wake_word_active() at time t: its answer and the session afterwards
is_wake_word_active(S, t) ==
    IF ~S.wake_word_detected THEN [active |-> FALSE, state |-> S]
    ELSE IF t - S.last_wake_word_time > wake_word_timeout
    THEN [active |-> FALSE, state |-> [S EXCEPT !.wake_word_detected = FALSE]]
    ELSE [active |-> TRUE, state |-> S]

\* _process_voice_command(text) that drops the command
process_voice_command_dropped(S, text, reply, obs) == [state |-> S, obs |-> obs]

\* _process_voice_command(text) that also restarts the command window
process_voice_command_refreshing(S, text, reply, obs) ==
    LET sent == send_text_command(S.conversation_history, text, reply)
    IN  [state |-> [S EXCEPT !.conversation_history = sent.history,
                             !.last_wake_word_time = now],
         obs |-> [obs EXCEPT !.sent = Append(obs.sent, text), !.result = sent.result]]

\* _process_voice_command(text) from a cycle whose observation so far is obs
process_voice_command(S, text, reply, obs) ==
    LET sent == send_text_command(S.conversation_history, text, reply)
    IN  [state |-> [S EXCEPT !.conversation_history = sent.history],
         obs |-> [obs EXCEPT !.sent = Append(obs.sent, text), !.result = sent.result]]

\* "if result.get("success") and result.get("text")" taken as always true
transcribed_always(stt) == TRUE

\* "if result.get("success") and result.get("text")"
transcribed(stt) == stt.success /\ stt.text # <<>>

\* the transcription step of the modular _process_audio_chunks with the calls
\* it makes: the engine's transcribe_file and nothing else
transcribe_chunks(stt) ==
    [text |-> IF stt.available /\ ~stt.raised /\ transcribed(stt)
              THEN strip(stt.text) ELSE <<>>,
     native_calls |-> IF stt.available THEN 1 ELSE 0,
     remote_calls |-> 0]

\* _process_audio_chunks(chunks) at time t, with the engine's result stt, the
\* detector's result r for the transcribed text and the backend's reply
process_audio_chunks(S, chunks, stt, r, reply, t) ==
    LET filtered == filter_audio_chunks(chunks, min_speech_chunks)
        text == strip(stt.text)
        dropped == [NoCycle EXCEPT !.kind = "audio"]
        failed == [dropped EXCEPT !.forwarded = TRUE]
        heard == [failed EXCEPT !.transcribed = TRUE, !.text = text,
                                !.detected = r.detected, !.matched = r.matched_word]
        woken == [S EXCEPT !.wake_word_detected = TRUE, !.last_wake_word_time = t]
        active == is_wake_word_active(S, t)
    IN  IF filtered = <<>> THEN [state |-> S, obs |-> dropped]
        ELSE IF stt.raised THEN [state |-> S, obs |-> failed]
        ELSE IF ~transcribed(stt) THEN [state |-> S, obs |-> failed]
        ELSE IF S.wake_word_only_mode /\ r.detected
        THEN IF r.matched_word = NoneWord
             THEN [state |-> woken, obs |-> [heard EXCEPT !.raised = TRUE]]
             ELSE LET command_text == Commands[text][r.matched_word]
                  IN  IF strip(command_text) # <<>>
                      THEN process_voice_command(woken, command_text, reply, heard)
                      ELSE [state |-> woken, obs |-> heard]
        ELSE IF active.active
        THEN process_voice_command(active.state, text, reply, heard)
        ELSE [state |-> active.state, obs |-> heard]

(***************************************************************************)
(* The legacy handler's processing cycle (voice_commands.py)               *)
(***************************************************************************)
\* _check_wake_word_timeout() at time t
check_wake_word_timeout(S, t) ==
    IF S.wake_word_detected /\ t - S.last_wake_word_time > wake_word_timeout
    THEN [S EXCEPT !.wake_word_detected = FALSE, !.wake_word_only_mode = TRUE]
    ELSE S

\* _process_wake_word_detection(transcription) at time t: the session
\* afterwards and the value returned (None as NoneWord)
legacy_process_wake_word_detection(S, transcription, t) ==
    IF LegacyHeard[transcription].detected
    THEN [state |-> [S EXCEPT !.wake_word_detected = TRUE,
                              !.wake_word_only_mode = FALSE,
                              !.last_wake_word_time = t],
          remaining |-> IF LegacyHeard[transcription].remaining # <<>>
                        THEN LegacyHeard[transcription].remaining
                        ELSE NoneWord]
    ELSE [state |-> S, remaining |-> NoneWord]

\* a call of _send_ai_command(command_text) from a cycle observed so far as obs
legacy_dispatch(S, command_text, reply, obs) ==
    LET sent == legacy_send_ai_command(S.conversation_history, command_text, reply)
    IN  [state |-> [S EXCEPT !.conversation_history = sent.history],
         obs |-> [obs EXCEPT
                    !.sent = IF sent.posted THEN Append(obs.sent, command_text)
                             ELSE obs.sent,
                    !.result = sent.result]]

\* the branch on wake_word_only_mode shared by _process_recorded_audio and
\* the tail of the legacy send_text_command, for a non-empty transcription
legacy_handle_transcription(S, transcription, reply, t, obs) ==
    LET p == legacy_process_wake_word_detection(S, transcription, t)
        heard == [obs EXCEPT !.transcribed = TRUE, !.text = transcription,
                             !.detected = LegacyHeard[transcription].detected,
                             !.matched = IF LegacyHeard[transcription].detected
                                         THEN lower(legacy_wake_word)
                                         ELSE NoneWord]
    IN  IF S.wake_word_only_mode
        THEN IF p.remaining # NoneWord
             THEN legacy_dispatch(p.state, p.remaining, reply, heard)
             ELSE [state |-> p.state, obs |-> heard]
        ELSE IF p.remaining # NoneWord
             THEN legacy_dispatch(p.state, p.remaining, reply, heard)
             ELSE legacy_dispatch(p.state, transcription, reply, heard)

\* _process_recorded_audio(audio_chunks) at time t
process_recorded_audio(S, chunks, transcription, reply, t) ==
    LET checked == check_wake_word_timeout(S, t)
        dropped == [NoCycle EXCEPT !.kind = "audio"]
        failed == [dropped EXCEPT !.forwarded = TRUE]
    IN  IF Len(chunks) < min_audio_chunks THEN [state |-> checked, obs |-> dropped]
        ELSE IF transcription = <<>> THEN [state |-> checked, obs |-> failed]
        ELSE legacy_handle_transcription(checked, transcription, reply, t, failed)

ready_for_commands == <<"Wake word detected. Ready for commands.">>

say_aida_first == <<"Please say 'Aida' first to activate voice commands.">>

\* the legacy send_text_command(text) at time t
legacy_send_text_command(S, text, reply, t) ==
    LET checked == check_wake_word_timeout(S, t)
        typed == [NoCycle EXCEPT !.kind = "text", !.forwarded = TRUE]
        out == legacy_handle_transcription(checked, text, reply, t, typed)
    IN  IF checked.wake_word_only_mode
             /\ legacy_process_wake_word_detection(checked, text, t).remaining = NoneWord
        THEN [state |-> out.state,
              obs |-> [out.obs EXCEPT !.result = IF LegacyHeard[text].detected
                                                  THEN ready_for_commands
                                                  ELSE say_aida_first]]
        ELSE out

(***************************************************************************)
(* The session specification: processing cycles and the clock              *)
(***************************************************************************)
\* time.time() when the handler is constructed: any reading more than the
\* timeout away from the initial last_wake_word_time = 0
StartTime == wake_word_timeout + 1

SessionVars ==
    <<wake_word_detected, wake_word_only_mode, last_wake_word_time,
      conversation_history>>

LoopVars == <<audio_chunks, silence_count, speech_detected, timeout_check_counter>>

\* everything but the threads
HandlerVars ==
    <<handler, now, SessionVars, LoopVars, cycle, loop, calls, produced,
      DetectorVars>>

\* the session's mode as the handler's flags give it: the modular handler never
\* changes wake_word_only_mode and is in command mode while wake_word_detected
\* is set; the legacy handler switches wake_word_only_mode
mode ==
    IF handler = "modular"
    THEN IF wake_word_detected THEN "COMMAND_ACTIVE" ELSE "WAKE_ONLY"
    ELSE IF wake_word_only_mode THEN "WAKE_ONLY" ELSE "COMMAND_ACTIVE"

\* "time.time() - self.last_wake_word_time > self.wake_word_timeout"
expired == now - last_wake_word_time > wake_word_timeout

\* the effect of a processing cycle on the handler's fields; the observation
\* keeps the mode the cycle started in and whether the window had run out
Apply(out) ==
    /\ wake_word_detected' = out.state.wake_word_detected
    /\ wake_word_only_mode' = out.state.wake_word_only_mode
    /\ last_wake_word_time' = out.state.last_wake_word_time
    /\ conversation_history' = out.state.conversation_history
    /\ cycle' = [out.obs EXCEPT !.mode = mode, !.expired = expired]
    /\ calls' = calls + Len(out.obs.sent)

(***************************************************************************)
(* The controller thread and the worker threads (start_listening,          *)
(* stop_listening and _listen_loop of both handlers)                       *)
(***************************************************************************)
\* the most threads start_listening starts in a run
MaxWorkers == 2

\* the most calls of start_listening and stop_listening in a run
MaxControl == 3

\* the most failed reads of the audio source in a run of the loop
MaxReadErrors == 1

\* "self.audio_manager.audio.open(...)": a stream just opened; closes counts
\* the calls of close() on it, late_read tells a read() after close()
OpenStream == [state |-> "open", closes |-> 0, late_read |-> FALSE]

\* "threading.Thread(target=self._listen_loop)": a thread before its first
\* step; left tells why it left "while self.recording"
NewWorker == [pc |-> "open", left |-> "none"]

\* the controller between two calls, made calls so far; arg is the argument
\* of the call it is in
Idle(made) == [pc |-> "idle", made |-> made, arg |-> <<>>]

\* "self.stream.stop_stream(); self.stream.close()" on stream number id
close(strs, id) ==
    [strs EXCEPT ![id] = [@ EXCEPT !.state = "closed",
                                   !.closes = IF @ < 2 THEN @ + 1 ELSE @]]

\* "self.stream.read(...)" on stream number id
read(strs, id) ==
    [strs EXCEPT ![id] = [@ EXCEPT !.late_read = @ \/ strs[id].state = "closed"]]

\* start_listening(): the legacy handler returns when it is already
\* recording, the modular handler starts a thread on every call
StartListening ==
    /\ control.pc = "idle"
    /\ control.made < MaxControl
    /\ Len(workers) < MaxWorkers
    /\ control' = Idle(control.made + 1)
    /\ IF handler = "legacy" /\ recording
       THEN UNCHANGED <<recording, workers>>
       ELSE /\ recording' = TRUE
            /\ workers' = Append(workers, NewWorker)
    /\ UNCHANGED <<HandlerVars, stream, streams>>

\* stop_listening(): "self.recording = False"
StopFlag ==
    /\ control.pc = "idle"
    /\ control.made < MaxControl
    /\ recording' = FALSE
    /\ control' = [control EXCEPT !.pc = "stop_check", !.made = @ + 1]
    /\ UNCHANGED <<HandlerVars, stream, streams, workers>>

\* stop_listening(): "if self.stream:"
StopCheck ==
    /\ control.pc = "stop_check"
    /\ control' = [control EXCEPT !.pc = IF stream # 0 THEN "stop_close" ELSE "idle"]
    /\ UNCHANGED <<HandlerVars, recording, stream, streams, workers>>

\* stop_listening(): "self.stream.stop_stream(); self.stream.close()". On None
\* (a worker has cleared the attribute meanwhile) the call raises
\* AttributeError; on a stream that is closed already the library may raise
\* OSError. The legacy handler catches both and goes on to its finally clause,
\* the modular handler lets them end the call.
StopClose ==
    /\ control.pc = "stop_close"
    /\ IF stream = 0
       THEN /\ control' = [control EXCEPT
                    !.pc = IF handler = "legacy" THEN "stop_clear" ELSE "idle"]
            /\ UNCHANGED streams
       ELSE /\ streams' = close(streams, stream)
            /\ \E raises \in {FALSE, streams[stream].state = "closed"} :
                 control' = [control EXCEPT
                    !.pc = IF raises /\ handler = "modular" THEN "idle"
                           ELSE "stop_clear"]
    /\ UNCHANGED <<HandlerVars, recording, stream, workers>>

\* stop_listening(): "self.stream = None"
StopClear ==
    /\ control.pc = "stop_clear"
    /\ stream' = 0
    /\ control' = [control EXCEPT !.pc = "idle"]
    /\ UNCHANGED <<HandlerVars, recording, streams, workers>>

\* worker w is at pc
At(w, pc) == w \in 1..Len(workers) /\ workers[w].pc = pc

\* worker w moves to pc
Goto(w, pc) == workers' = [workers EXCEPT ![w].pc = pc]

\* worker w leaves the loop for its finally clause
Leave(w, why) == workers' = [workers EXCEPT ![w] = [pc |-> "finally", left |-> why]]

\* _listen_loop: "self.stream = self.audio_manager.audio.open(...)", which
\* may fail with OSError ("Failed to start listening")
WorkerOpen(w) ==
    /\ At(w, "open")
    /\ \E opened \in BOOLEAN :
         IF opened
         THEN /\ streams' = Append(streams, OpenStream)
              /\ stream' = Len(streams) + 1
              /\ Goto(w, "test")
         ELSE /\ Leave(w, "open")
              /\ UNCHANGED <<stream, streams>>
    /\ UNCHANGED <<HandlerVars, recording, control>>

\* _listen_loop: "while self.recording:"
WorkerTest(w) ==
    /\ At(w, "test")
    /\ IF recording THEN Goto(w, "read") ELSE Leave(w, "stop")
    /\ UNCHANGED <<HandlerVars, recording, stream, streams, control>>

\* what "self.stream.read(...)" does at this moment: AttributeError when the
\* attribute is None, OSError on a closed stream, and a frame or OSError on an
\* open one
ReadOutcomes ==
    IF stream = 0 THEN {"AttributeError"}
    ELSE IF streams[stream].state = "closed" THEN {"OSError"}
    ELSE {"frame", "OSError"}

\* where the loop goes after a read: the modular loop breaks on OSError, the
\* legacy loop logs it, sleeps and goes on; neither catches AttributeError
AfterRead(w, outcome) ==
    IF outcome = "frame" THEN Goto(w, "test")
    ELSE IF outcome = "AttributeError" THEN Leave(w, "crash")
    ELSE IF handler = "modular" THEN Leave(w, "error")
    ELSE Goto(w, "test")

\* _listen_loop: one read of the loop body, the frame's processing left out
WorkerRead(w) ==
    /\ At(w, "read")
    /\ \E outcome \in ReadOutcomes : AfterRead(w, outcome)
    /\ streams' = IF stream = 0 THEN streams ELSE read(streams, stream)
    /\ UNCHANGED <<HandlerVars, recording, stream, control>>

\* _listen_loop, finally: "if self.stream:"
WorkerFinally(w) ==
    /\ At(w, "finally")
    /\ Goto(w, IF stream # 0 THEN "close" ELSE "done")
    /\ UNCHANGED <<HandlerVars, recording, stream, streams, control>>

\* _listen_loop, finally: "self.stream.stop_stream(); self.stream.close()",
\* with the same errors as in stop_listening: the legacy loop catches them and
\* clears the attribute, the modular thread ends
WorkerClose(w) ==
    /\ At(w, "close")
    /\ IF stream = 0
       THEN /\ Goto(w, IF handler = "legacy" THEN "clear" ELSE "done")
            /\ UNCHANGED streams
       ELSE /\ streams' = close(streams, stream)
            /\ \E raises \in {FALSE, streams[stream].state = "closed"} :
                 Goto(w, IF raises /\ handler = "modular" THEN "done" ELSE "clear")
    /\ UNCHANGED <<HandlerVars, recording, stream, control>>

\* _listen_loop, finally: "self.stream = None"
WorkerClear(w) ==
    /\ At(w, "clear")
    /\ stream' = 0
    /\ Goto(w, "done")
    /\ UNCHANGED <<HandlerVars, recording, streams, control>>

\* the loop before its first iteration: the frame read, whether the iteration
\* handed an utterance on and which, the number of reads, the number of failed
\* reads, the number of frames on which the classifier raised, and the frames
\* read since the last utterance was handed on
NoFrame ==
    [frame |-> "none", finalized |-> FALSE, utterance |-> <<>>, read |-> 0,
     errors |-> 0, unclassified |-> 0, frames |-> <<>>]

Init ==
    /\ handler \in {"modular", "legacy"}
    /\ now = StartTime
    /\ wake_word_detected = FALSE
    /\ wake_word_only_mode = TRUE
    /\ last_wake_word_time = 0
    /\ conversation_history = <<>>
    /\ audio_chunks = <<>>
    /\ silence_count = 0
    /\ speech_detected = FALSE
    /\ timeout_check_counter = 0
    /\ cycle = NoCycle
    /\ loop = NoFrame
    /\ calls = 0
    /\ produced = <<>>
    /\ recording = FALSE
    /\ stream = 0
    /\ streams = <<>>
    /\ workers = <<>>
    /\ control = Idle(0)
    /\ detector = wake_word_detector
    /\ detecting = NoDetecting

\* the modular handler processes a finalized utterance
ProcessAudioChunks ==
    /\ handler = "modular"
    /\ calls < MaxCalls
    /\ \E n \in SpeechFrames, stt \in EngineResults, reply \in CycleReplies :
         \E r \in Detections[strip(stt.text)] :
            Apply(process_audio_chunks(Session, Utterance(n), stt, r, reply, now))
    /\ UNCHANGED <<ThreadVars, DetectorVars, handler, now, LoopVars, loop, produced>>

\* the legacy handler processes a finalized utterance
ProcessRecordedAudio ==
    /\ handler = "legacy"
    /\ calls < MaxCalls
    /\ \E n \in SpeechFrames, transcription \in LegacyTranscriptions,
          reply \in CycleReplies :
         Apply(process_recorded_audio(Session, Utterance(n), transcription, reply, now))
    /\ UNCHANGED <<ThreadVars, DetectorVars, handler, now, LoopVars, loop, produced>>

\* the legacy handler is given a typed command
SendTextCommand ==
    /\ handler = "legacy"
    /\ calls < MaxCalls
    /\ \E text \in Transcriptions, reply \in CycleReplies :
         Apply(legacy_send_text_command(Session, text, reply, now))
    /\ UNCHANGED <<ThreadVars, DetectorVars, handler, now, LoopVars, loop, produced>>

\* time passes between cycles
Tick ==
    /\ \E d \in {60, 61} :
         /\ now + d <= StartTime + MaxElapsed
         /\ now' = now + d
    /\ cycle' = NoCycle
    /\ UNCHANGED <<ThreadVars, DetectorVars, handler, SessionVars, LoopVars, loop, calls, produced>>

Next == ProcessAudioChunks \/ ProcessRecordedAudio \/ SendTextCommand \/ Tick

Spec == Init /\ [][Next]_vars

(***************************************************************************)
(* The history specification: commands dispatched one after another        *)
(***************************************************************************)
DigitChars == <<"0", "1", "2", "3", "4", "5", "6", "7", "8", "9">>

RECURSIVE numeral(_)
\* str(n)
numeral(n) ==
    IF n < 10 THEN <<DigitChars[n + 1]>>
    ELSE numeral(n \div 10) \o <<DigitChars[(n % 10) + 1]>>

\* the text of the user's n-th command
command_text(n) == <<"c", "o", "m", "m", "a", "n", "d", " ">> \o numeral(n)

\* the command the user gives next: a command that was not answered is given
\* again
next_command == command_text(Len(produced) \div 2 + 1)

\* the conversationHistory of the request the modular send_text_command
\* posts: self.conversation_history as it is after the user entry was appended
\* and the history trimmed
request_history(history, text) == trim_history(Append(history, user_entry(text)))

\* the conversationHistory of the request the legacy _send_ai_command posts:
\* self.conversation_history as the call found it
legacy_request_history(history, text) == history

\* what a direct dispatch is observed to have done, request being the history
\* that was posted
dispatched(text, reply, result, request) ==
    [kind |-> "dispatch", text |-> text, reply |-> reply, result |-> result,
     request |-> request]

\* the modular send_text_command is called with the next command
DispatchModular ==
    /\ handler = "modular"
    /\ calls < MaxDispatches
    /\ \E reply \in Replies :
         LET text == next_command
             out == send_text_command(conversation_history, text, reply)
         IN  /\ conversation_history' = out.history
             /\ produced' = produced \o out.appended
             /\ cycle' = dispatched(text, reply, out.result,
                                    request_history(conversation_history, text))
    /\ calls' = calls + 1
    /\ UNCHANGED <<ThreadVars, DetectorVars, handler, now, wake_word_detected, wake_word_only_mode,
                   last_wake_word_time, LoopVars, loop>>

\* the legacy _send_ai_command is called with the next command
DispatchLegacy ==
    /\ handler = "legacy"
    /\ calls < MaxDispatches
    /\ \E reply \in Replies :
         LET text == next_command
             out == legacy_send_ai_command(conversation_history, text, reply)
         IN  /\ conversation_history' = out.history
             /\ produced' = produced \o out.appended
             /\ cycle' = dispatched(text, reply, out.result,
                                    legacy_request_history(conversation_history,
                                                           text))
    /\ calls' = calls + 1
    /\ UNCHANGED <<ThreadVars, DetectorVars, handler, now, wake_word_detected, wake_word_only_mode,
                   last_wake_word_time, LoopVars, loop>>

NextHistory == DispatchModular \/ DispatchLegacy

SpecHistory == Init /\ [][NextHistory]_vars

(***************************************************************************)
(* The listening specification: _listen_loop, one frame per iteration      *)
(***************************************************************************)
\* the classifications of a frame read from the stream
Frames == {"speech", "silence"}

\* the segmenter of the modular loop without "silence_count = 0" on speech
segment_without_reset(chunks, count, detected, chunk) ==
    IF is_speech(chunk)
    THEN [audio_chunks |-> Append(chunks, chunk), silence_count |-> count,
          speech_detected |-> TRUE, finalized |-> FALSE, utterance |-> <<>>]
    ELSE IF detected
    THEN IF count + 1 >= silence_threshold
         THEN [audio_chunks |-> <<>>, silence_count |-> 0,
               speech_detected |-> FALSE,
               finalized |-> Append(chunks, chunk) # <<>>,
               utterance |-> Append(chunks, chunk)]
         ELSE [audio_chunks |-> Append(chunks, chunk), silence_count |-> count + 1,
               speech_detected |-> TRUE, finalized |-> FALSE, utterance |-> <<>>]
    ELSE [audio_chunks |-> chunks, silence_count |-> count,
          speech_detected |-> detected, finalized |-> FALSE, utterance |-> <<>>]

\* the segmenter of the modular _listen_loop on one frame: the loop's locals
\* afterwards and the utterance handed to _process_audio_chunks, if any
segment(chunks, count, detected, chunk) ==
    IF is_speech(chunk)
    THEN [audio_chunks |-> Append(chunks, chunk), silence_count |-> 0,
          speech_detected |-> TRUE, finalized |-> FALSE, utterance |-> <<>>]
    ELSE IF detected
    THEN IF count + 1 >= silence_threshold
         THEN [audio_chunks |-> <<>>, silence_count |-> 0,
               speech_detected |-> FALSE,
               finalized |-> Append(chunks, chunk) # <<>>,
               utterance |-> Append(chunks, chunk)]
         ELSE [audio_chunks |-> Append(chunks, chunk), silence_count |-> count + 1,
               speech_detected |-> TRUE, finalized |-> FALSE, utterance |-> <<>>]
    ELSE [audio_chunks |-> chunks, silence_count |-> count,
          speech_detected |-> detected, finalized |-> FALSE, utterance |-> <<>>]

\* the segmenter of the legacy _listen_loop on one frame (audio_buffer,
\* silence_count, recording_active)
legacy_segment(buffer, count, active, chunk) ==
    IF is_speech(chunk)
    THEN [audio_chunks |-> Append(IF active THEN buffer ELSE <<>>, chunk),
          silence_count |-> 0, speech_detected |-> TRUE,
          finalized |-> FALSE, utterance |-> <<>>]
    ELSE IF active
    THEN IF count + 1 >= silence_threshold
         THEN [audio_chunks |-> <<>>, silence_count |-> 0,
               speech_detected |-> FALSE, finalized |-> TRUE,
               utterance |-> Append(buffer, chunk)]
         ELSE [audio_chunks |-> Append(buffer, chunk), silence_count |-> count + 1,
               speech_detected |-> TRUE, finalized |-> FALSE, utterance |-> <<>>]
    ELSE [audio_chunks |-> buffer, silence_count |-> count,
          speech_detected |-> active, finalized |-> FALSE, utterance |-> <<>>]

\* the effect of an iteration on the loop's locals, and what it is observed
\* to have done
Segmented(seg, chunk) ==
    /\ audio_chunks' = seg.audio_chunks
    /\ silence_count' = seg.silence_count
    /\ speech_detected' = seg.speech_detected
    /\ loop' = [frame |-> chunk, finalized |-> seg.finalized,
                utterance |-> seg.utterance, read |-> loop.read + 1,
                errors |-> loop.errors,
                unclassified |-> loop.unclassified
                                   + (IF chunk \in Frames THEN 0 ELSE 1),
                frames |-> Append(IF loop.finalized THEN <<>> ELSE loop.frames,
                                  chunk)]

\* an iteration whose read raised: the loop's locals stay as they are
Failed ==
    /\ loop' = [frame |-> "error", finalized |-> FALSE, utterance |-> <<>>,
                read |-> loop.read + 1, errors |-> loop.errors + 1,
                unclassified |-> loop.unclassified,
                frames |-> IF loop.finalized THEN <<>> ELSE loop.frames]
    /\ UNCHANGED <<audio_chunks, silence_count, speech_detected>>

\* start_listening has started one thread, which has opened its stream and
\* has been idle for some iterations when the run begins (only the legacy
\* loop's timeout_check_counter tells); the controller has one call left
InitListen ==
    /\ handler \in {"modular", "legacy"}
    /\ now = StartTime
    /\ wake_word_detected = FALSE
    /\ wake_word_only_mode = TRUE
    /\ last_wake_word_time = 0
    /\ conversation_history = <<>>
    /\ audio_chunks = <<>>
    /\ silence_count = 0
    /\ speech_detected = FALSE
    /\ timeout_check_counter \in
          IF handler = "legacy" THEN {0, timeout_check_interval - 2} ELSE {0}
    /\ cycle = NoCycle
    /\ loop = NoFrame
    /\ calls = 0
    /\ produced = <<>>
    /\ recording = TRUE
    /\ stream = 1
    /\ streams = <<OpenStream>>
    /\ workers = <<[NewWorker EXCEPT !.pc = "test"]>>
    /\ control = Idle(MaxControl - 1)
    /\ detector = wake_word_detector
    /\ detecting = NoDetecting

\* the reads an iteration of the run can make: a failed read is one of them
\* MaxReadErrors times
Reads ==
    {outcome \in ReadOutcomes :
        outcome = "OSError" => loop.errors < MaxReadErrors}

\* one iteration of the modular loop: "while self.recording", the read, the
\* segmenter and the processing of a finalized utterance
ListenLoop ==
    /\ handler = "modular"
    /\ At(1, "test")
    /\ recording
    /\ loop.read < MaxFrames
    /\ \E outcome \in Reads :
         /\ AfterRead(1, outcome)
         /\ IF outcome = "frame"
            THEN \E chunk \in Frames :
                   LET seg == segment(audio_chunks, silence_count, speech_detected,
                                      chunk)
                   IN  /\ Segmented(seg, chunk)
                       /\ IF seg.finalized
                          THEN \E stt \in EngineResults, reply \in CycleReplies :
                                 \E r \in Detections[strip(stt.text)] :
                                    Apply(process_audio_chunks(
                                        Session, seg.utterance, stt, r, reply, now))
                          ELSE /\ cycle' = NoCycle
                               /\ UNCHANGED <<SessionVars, calls>>
            ELSE /\ Failed
                 /\ cycle' = NoCycle
                 /\ UNCHANGED <<SessionVars, calls>>
    /\ streams' = IF stream = 0 THEN streams ELSE read(streams, stream)
    /\ UNCHANGED <<recording, stream, control, DetectorVars>>
    /\ UNCHANGED <<handler, now, timeout_check_counter, produced>>

\* one iteration of the legacy loop: "while self.recording", the periodic
\* timeout check, the read, the segmenter and the processing of a finalized
\* utterance
LegacyListenLoop ==
    /\ handler = "legacy"
    /\ At(1, "test")
    /\ recording
    /\ loop.read < MaxFrames
    /\ \E outcome \in Reads :
         LET due == timeout_check_counter + 1 >= timeout_check_interval
             checked == IF due THEN check_wake_word_timeout(Session, now)
                        ELSE Session
         IN  /\ timeout_check_counter' =
                    IF due THEN 0 ELSE timeout_check_counter + 1
             /\ AfterRead(1, outcome)
             /\ IF outcome = "frame"
                THEN \E chunk \in Frames :
                       LET seg == legacy_segment(audio_chunks, silence_count,
                                                 speech_detected, chunk)
                       IN  /\ Segmented(seg, chunk)
                           /\ IF seg.finalized
                              THEN \E transcription \in LegacyTranscriptions,
                                      reply \in CycleReplies :
                                     Apply(process_recorded_audio(
                                         checked, seg.utterance, transcription,
                                         reply, now))
                              ELSE Apply([state |-> checked, obs |-> NoCycle])
                ELSE /\ Failed
                     /\ Apply([state |-> checked, obs |-> NoCycle])
    /\ streams' = IF stream = 0 THEN streams ELSE read(streams, stream)
    /\ UNCHANGED <<recording, stream, control, DetectorVars>>
    /\ UNCHANGED <<handler, now, produced>>

\* the thread finds the flag cleared and leaves through its finally clause
WorkerExit ==
    \/ ~recording /\ WorkerTest(1)
    \/ WorkerFinally(1)
    \/ WorkerClose(1)
    \/ WorkerClear(1)

NextListen ==
    \/ ListenLoop
    \/ LegacyListenLoop
    \/ StopFlag
    \/ StopCheck
    \/ StopClose
    \/ StopClear
    \/ WorkerExit

SpecListen == InitListen /\ [][NextListen]_vars

(***************************************************************************)
(* The threads' specification: serialized calls of start_listening and     *)
(* stop_listening, and the steps of the threads they start                 *)
(***************************************************************************)
Controller == StartListening \/ StopFlag \/ StopCheck \/ StopClose \/ StopClear

Worker(w) ==
    \/ WorkerOpen(w)
    \/ WorkerTest(w)
    \/ WorkerRead(w)
    \/ WorkerFinally(w)
    \/ WorkerClose(w)
    \/ WorkerClear(w)

NextThreads == Controller \/ \E w \in 1..MaxWorkers : Worker(w)

SpecThreads == Init /\ [][NextThreads]_vars

(***************************************************************************)
(* The profile's specification: add_variation on the controller thread     *)
(* while detect_wake_word runs on the worker thread                        *)
(***************************************************************************)
s_jarvis == <<"j", "a", "r", "v", "i", "s">>

s_ok_jarvis == <<"o", "k", " ", "j", "a", "r", "v", "i", "s">>

t_ok_jarvi == <<"o", "k", " ", "j", "a", "r", "v", "i">>

t_hello == <<"h", "e", "l", "l", "o">>

\* the variations the controller adds
AddedVariations == {s_jarvis, s_ok_jarvis}

\* the texts the worker runs the matcher on
VariationTexts == {s_jarvis, t_ok_jarvi, t_aida, t_hello}

\* the profile before add_variation
aida_detector == WakeWordDetector(s_aida, <<3, 5>>, TRUE, <<>>)

\* everything but the controller and the detector
OtherVars ==
    <<handler, now, SessionVars, LoopVars, cycle, loop, calls, produced,
      recording, stream, streams, workers>>

InitVariation ==
    /\ handler = "modular"
    /\ now = StartTime
    /\ wake_word_detected = FALSE
    /\ wake_word_only_mode = TRUE
    /\ last_wake_word_time = 0
    /\ conversation_history = <<>>
    /\ audio_chunks = <<>>
    /\ silence_count = 0
    /\ speech_detected = FALSE
    /\ timeout_check_counter = 0
    /\ cycle = NoCycle
    /\ loop = NoFrame
    /\ calls = 0
    /\ produced = <<>>
    /\ recording = FALSE
    /\ stream = 0
    /\ streams = <<>>
    /\ workers = <<>>
    /\ control = Idle(0)
    /\ detector = aida_detector
    /\ detecting = NoDetecting

\* add_variation: "self.variations.add(clean_var)", once in a run; the call
\* ends here when there is nothing to add
AddVariation ==
    /\ control.pc = "idle"
    /\ control.made = 0
    /\ \E variation \in AddedVariations :
         /\ detector' = add_to_variations(detector, variation)
         /\ control' = IF detector' = detector THEN Idle(1)
                       ELSE [pc |-> "add_code", made |-> 1, arg |-> variation]
    /\ UNCHANGED <<OtherVars, detecting>>

\* add_variation: "self.soundex_codes.add(self._soundex(clean_word))"
AddCode ==
    /\ control.pc = "add_code"
    /\ detector' = add_to_soundex_codes(detector, control.arg)
    /\ control' = Idle(control.made)
    /\ UNCHANGED <<OtherVars, detecting>>

\* detect_wake_word: text and words of the call under way
detecting_text == strip(lower(detecting.text))

detecting_words == findall_words(detecting_text)

\* the call under way moves to a stage, or returns a result
Stage(stage) == detecting' = [detecting EXCEPT !.stage = stage]

Return(result) == detecting' = [detecting EXCEPT !.stage = "done", !.result = result]

\* detect_wake_word is called
DetectStart ==
    /\ detecting.stage \in {"idle", "done", "raised"}
    /\ \E text \in VariationTexts :
         detecting' = [NoDetecting EXCEPT !.stage = "exact", !.text = text]
    /\ UNCHANGED <<OtherVars, control, detector>>

\* detect_wake_word: "for word in words: if word in self.variations"
DetectExact ==
    /\ detecting.stage = "exact"
    /\ LET exact == {i \in 1..Len(detecting_words) :
                        detecting_words[i] \in detector.variations}
       IN  IF detecting.text = <<>> THEN Return(no_detection)
           ELSE IF exact # {}
           THEN Return(detection("exact", detecting_words[SetMin(exact)], <<1, 1>>))
           ELSE Stage("fuzzy")
    /\ UNCHANGED <<OtherVars, control, detector>>

\* an iteration "for variation in self.variations" begins
Iterate(stage) ==
    detecting' = [detecting EXCEPT !.stage = stage, !.seen = detector.variations]

\* the profiles an iteration that has ended can have gone through: the
\* profile as it is, and the profile as it was when the set has changed since
\* the iteration began (the change came after the last element was fetched)
Iterated ==
    {detector, [detector EXCEPT !.variations = detecting.seen]}

\* _fuzzy_match: the loops begin
DetectFuzzyBegin ==
    /\ detecting.stage = "fuzzy"
    /\ Iterate("fuzzy_iter")
    /\ UNCHANGED <<OtherVars, control, detector>>

\* _fuzzy_match: the loops end. "for variation in self.variations" raises
\* RuntimeError (Set changed size during iteration) when the set has grown
\* while a word was being compared
DetectFuzzyEnd ==
    /\ detecting.stage = "fuzzy_iter"
    /\ \/ /\ detector.variations # detecting.seen
          /\ \E i \in 1..Len(detecting_words) :
                detecting_words[i] \notin common_words_blacklist
          /\ Stage("raised")
       \/ \E D \in Iterated :
             LET best_fuzzy == fuzzy_match(detecting_words, D)
             IN  IF best_fuzzy.detected THEN Return(best_fuzzy)
                 ELSE IF detector.phonetic_matching THEN Stage("phonetic")
                 ELSE Stage("multiword")
    /\ UNCHANGED <<OtherVars, control, detector>>

\* _phonetic_match
DetectPhonetic ==
    /\ detecting.stage = "phonetic"
    /\ LET best_phonetic == phonetic_match(detecting_words, detector)
       IN  IF best_phonetic.detected THEN Return(best_phonetic)
           ELSE Stage("multiword")
    /\ UNCHANGED <<OtherVars, control, detector>>

\* _multiword_match: the loop begins
DetectMultiwordBegin ==
    /\ detecting.stage = "multiword"
    /\ Iterate("multiword_iter")
    /\ UNCHANGED <<OtherVars, control, detector>>

\* _multiword_match: the loop ends, or raises RuntimeError when the set has
\* grown meanwhile
DetectMultiwordEnd ==
    /\ detecting.stage = "multiword_iter"
    /\ \/ /\ detector.variations # detecting.seen
          /\ Stage("raised")
       \/ \E D \in Iterated :
             \E result \in multiword_match(detecting_text, D) : Return(result)
    /\ UNCHANGED <<OtherVars, control, detector>>

NextVariation ==
    \/ AddVariation
    \/ AddCode
    \/ DetectStart
    \/ DetectExact
    \/ DetectFuzzyBegin
    \/ DetectFuzzyEnd
    \/ DetectPhonetic
    \/ DetectMultiwordBegin
    \/ DetectMultiwordEnd

SpecVariation == InitVariation /\ [][NextVariation]_vars

(***************************************************************************)
(* The transcription specification: the transcription step of one          *)
(* utterance after another                                                 *)
(***************************************************************************)
\* what a transcription step was given (the native engine's result and the
\* answer the backend has for the utterance) and what it is observed to have
\* done
transcription(native, remote, out) ==
    [kind |-> "transcription", native |-> native, remote |-> remote,
     native_calls |-> out.native_calls, remote_calls |-> out.remote_calls,
     text |-> out.text]

\* the legacy _transcribe_audio on an utterance
TranscribeAudio ==
    /\ handler = "legacy"
    /\ calls < MaxCalls
    /\ \E native \in NativeResults, remote \in RemoteResults :
         LET out == transcribe_audio(native, remote)
         IN  /\ cycle' = transcription(native, remote, out)
             /\ calls' = calls + out.remote_calls
    /\ UNCHANGED <<ThreadVars, DetectorVars, handler, now, SessionVars, LoopVars,
                   loop, produced>>

\* the transcription step of the modular _process_audio_chunks on an utterance
TranscribeChunks ==
    /\ handler = "modular"
    /\ calls < MaxCalls
    /\ \E stt \in NativeResults, remote \in RemoteResults :
         LET out == transcribe_chunks(stt)
         IN  /\ cycle' = transcription(stt, remote, out)
             /\ calls' = calls + out.remote_calls
    /\ UNCHANGED <<ThreadVars, DetectorVars, handler, now, SessionVars, LoopVars,
                   loop, produced>>

NextTranscribe == TranscribeAudio \/ TranscribeChunks

SpecTranscribe == Init /\ [][NextTranscribe]_vars

(***************************************************************************)
(* The matcher's specification: detect_wake_word on one text after another *)
(* for a range of profiles, with add_variation calls in between            *)
(***************************************************************************)
t_two_wake ==
    <<"o", "k", " ", "a", "i", "d", "a", " ", "a", "p", "a", "r", "t", "m", "e", "n", "t">>

t_apartmen ==
    <<"a", "p", "a", "r", "t", "m", "e", "n", " ", "p", "l", "e", "a", "s", "e">>

t_ada == <<"a", "d", "a", " ", "o", "n">>

t_split ==
    <<"a", " ", "p", "a", "r", "t", " ", "m", "i", "n", "t", " ", "p", "l", "e", "a", "s", "e">>

t_apparent ==
    <<"a", "n", " ", "a", "p", "p", "a", "r", "e", "n", "t", " ", "f", "a", "u", "l", "t">>

t_important == <<"i", "m", "p", "o", "r", "t", "a", "n", "t">>

t_marks == <<"!", "!", "!">>

t_important_meeting ==
    <<"i", "m", "p", "o", "r", "t", "a", "n", "t", " ", "m", "e", "e", "t",
      "i", "n", "g", " ", "t", "o", "m", "o", "r", "r", "o", "w">>

t_department_store ==
    <<"d", "e", "p", "a", "r", "t", "m", "e", "n", "t", " ", "s", "t", "o",
      "r", "e", " ", "v", "i", "s", "i", "t">>

t_elephant ==
    <<"e", "l", "e", "p", "h", "a", "n", "t", " ", "i", "n", " ", "t", "h",
      "e", " ", "r", "o", "o", "m">>

t_hello_world == <<"h", "e", "l", "l", "o", " ", "w", "o", "r", "l", "d">>

\* texts made of words that are confusable with "apartment" or unrelated
ConfusableTexts == {t_important_meeting, t_department_store, t_elephant, t_hello_world}

\* the texts given to the matcher: exact, fuzzy, phonetic and multi-word
\* hits, blacklisted words, confusable words, texts without a hit, without a
\* token, and the empty text
DetectTexts ==
    {t_aida, t_cmd_wake, t_two_wake, t_apartmen, t_ada, t_split, t_apparent,
     t_important, t_hello, t_marks, t_blank, s_jarvis, <<>>} \cup ConfusableTexts

\* the profiles the matcher is constructed with: wake word, threshold,
\* phonetic matching and custom variations
Profiles ==
    {wake_word_detector,
     aida_detector,
     WakeWordDetector(s_apartment, <<3, 4>>, FALSE, <<>>),
     WakeWordDetector(s_aida, <<0, 1>>, TRUE, <<>>)}

InitDetect ==
    /\ handler = "modular"
    /\ now = StartTime
    /\ wake_word_detected = FALSE
    /\ wake_word_only_mode = TRUE
    /\ last_wake_word_time = 0
    /\ conversation_history = <<>>
    /\ audio_chunks = <<>>
    /\ silence_count = 0
    /\ speech_detected = FALSE
    /\ timeout_check_counter = 0
    /\ cycle = NoCycle
    /\ loop = NoFrame
    /\ calls = 0
    /\ produced = <<>>
    /\ recording = FALSE
    /\ stream = 0
    /\ streams = <<>>
    /\ workers = <<>>
    /\ control = Idle(0)
    /\ detector \in Profiles
    /\ detecting = NoDetecting

\* detect_wake_word(text), from entry to return
DetectWakeWord ==
    /\ \E text \in DetectTexts :
         \E result \in detect_wake_word(text, detector) :
            detecting' = [stage |-> "done", text |-> text, seen |-> {},
                          result |-> result]
    /\ UNCHANGED <<OtherVars, control, detector>>

\* add_wake_word_variation(variation), from entry to return
AddWakeWordVariation ==
    /\ \E variation \in AddedVariations :
         /\ detector' = add_variation(detector, variation)
         /\ detector' # detector
    /\ detecting' = NoDetecting
    /\ UNCHANGED <<OtherVars, control>>

NextDetect == DetectWakeWord \/ AddWakeWordVariation

SpecDetect == InitDetect /\ [][NextDetect]_vars

(***************************************************************************)
(* Properties of the command session (checked under Spec)                  *)
(***************************************************************************)
\* the last step was a processing cycle that obtained a transcription
Heard == cycle.kind # "none" /\ cycle.transcribed

\* the command that trails the wake phrase in the last cycle's transcription:
\* what follows the first occurrence of the matched phrase, less a leading
\* comma or connective
TrailingCommand ==
    IF cycle.matched = NoneWord THEN cycle.text
    ELSE strip(extract_command_after_wake_word(
                   cycle.text, cycle.matched, wake_word_detector.variations))

\* the user entries of the conversation history, in order
UserEntries == SelectSeq(conversation_history, LAMBDA e : e.role = "user")

\* C1: a cycle for a transcription that starts in COMMAND_ACTIVE with
\* now - last_wake_timestamp > timeout_seconds resets the session to WAKE_ONLY
\* before it decides: a transcription without the wake phrase is then not
\* dispatched, and whenever such a cycle leaves the session in COMMAND_ACTIVE
\* or dispatches, now - last_wake_timestamp <= timeout_seconds.
C1_TimeoutEnforcedFirst ==
    Heard =>
        /\ (cycle.mode = "COMMAND_ACTIVE" /\ cycle.expired /\ ~cycle.detected) =>
               (cycle.sent = <<>> /\ mode = "WAKE_ONLY")
        /\ mode = "COMMAND_ACTIVE" => ~expired
        /\ cycle.sent # <<>> => (mode = "COMMAND_ACTIVE" /\ ~expired)

C1_ExpiredWindowReset ==
    /\ Heard
    /\ cycle.mode = "COMMAND_ACTIVE"
    /\ cycle.expired
    /\ ~cycle.detected
    /\ strip(cycle.text) # <<>>
    /\ mode = "WAKE_ONLY"
    /\ cycle.sent = <<>>

\* C2: in WAKE_ONLY, a transcription in which the wake phrase is detected puts
\* the session in COMMAND_ACTIVE with last_wake_timestamp = now, and the
\* trailing command is dispatched if and only if it is non-empty.
C2_WakeOpensWindow ==
    (Heard /\ cycle.mode = "WAKE_ONLY" /\ cycle.detected) =>
        /\ mode = "COMMAND_ACTIVE"
        /\ last_wake_word_time = now
        /\ cycle.sent # <<>> <=> TrailingCommand # <<>>
        /\ cycle.sent # <<>> =>
               (Len(cycle.sent) = 1 /\ lower(cycle.sent[1]) = lower(TrailingCommand))

C4_WakeAgainRefreshes ==
    (Heard /\ cycle.mode = "COMMAND_ACTIVE" /\ cycle.detected) =>
        /\ mode = "COMMAND_ACTIVE"
        /\ last_wake_word_time = now
        /\ TrailingCommand = <<>> => cycle.sent = <<>>
        /\ TrailingCommand # <<>> =>
               (Len(cycle.sent) = 1 /\ lower(cycle.sent[1]) = lower(TrailingCommand))

\* C5: in WAKE_ONLY, a transcription in which the wake phrase is not detected
\* is dropped: no backend request is made, and mode, last_wake_timestamp and
\* conversation_history stay as they were.
C5_DroppedSilently ==
    [][(cycle'.kind # "none" /\ cycle'.transcribed /\ ~cycle'.detected
            /\ mode = "WAKE_ONLY") =>
          /\ cycle'.sent = <<>>
          /\ calls' = calls
          /\ mode' = mode
          /\ last_wake_word_time' = last_wake_word_time
          /\ conversation_history' = conversation_history]_vars

C5_DroppedAfterSession ==
    /\ Heard
    /\ cycle.mode = "WAKE_ONLY"
    /\ ~cycle.detected
    /\ strip(cycle.text) # <<>>
    /\ cycle.sent = <<>>
    /\ mode = "WAKE_ONLY"
    /\ conversation_history # <<>>

\* C9: when the transcription of a forwarded utterance fails or yields empty
\* text, nothing is dispatched, no backend request is made and
\* conversation_history stays as it was.
C9_NothingToProcess ==
    [][(cycle'.kind = "audio" /\ cycle'.forwarded
            /\ (~cycle'.transcribed \/ strip(cycle'.text) = <<>>)) =>
          /\ cycle'.sent = <<>>
          /\ calls' = calls
          /\ conversation_history' = conversation_history]_vars

C9_FailedInCommandMode ==
    /\ cycle.kind = "audio"
    /\ cycle.forwarded
    /\ ~cycle.transcribed
    /\ cycle.mode = "COMMAND_ACTIVE"
    /\ ~cycle.expired
    /\ cycle.sent = <<>>
    /\ conversation_history # <<>>

(***************************************************************************)
(* Properties of the conversation history (checked under SpecHistory)      *)
(***************************************************************************)
\* the backend call of a dispatch failed: a request error, a status other than
\* 200, no data, or an empty response text
failure(reply) ==
    reply.error \/ reply.status # 200 \/ ~reply.has_data \/ reply.response = <<>>

\* the number of entries the successful dispatches have produced so far: a
\* user entry and an assistant entry with the response for each
SuccessfulEntries ==
    2 * Cardinality({i \in 1..Len(produced) :
                        produced[i].role = "assistant" /\ produced[i].content # <<>>})

\* C6: len(conversation_history) <= 2 * max_history in every reachable state,
\* after any sequence of dispatches with any mix of successes and failures.
C6_HistoryBounded == Len(conversation_history) <= 2 * max_history

\* C7: a dispatch whose backend call fails returns no response and leaves
\* conversation_history as it was before the dispatch began.
C7_FailureLeavesHistory ==
    [][(cycle'.kind = "dispatch" /\ failure(cycle'.reply)) =>
          /\ cycle'.result = NoneWord
          /\ conversation_history' = conversation_history]_vars

\* C8: once successful dispatches have produced more than 2 * max_history
\* entries, after every successful dispatch conversation_history is exactly
\* the 2 * max_history most recently appended entries, in their order.
C8_TrimmedToNewest ==
    (cycle.kind = "dispatch" /\ ~failure(cycle.reply)
        /\ SuccessfulEntries > 2 * max_history) =>
        /\ Len(conversation_history) = 2 * max_history
        /\ conversation_history = last_entries(produced, 2 * max_history)

(***************************************************************************)
(* Properties of the segmenter (checked under SpecListen)                  *)
(***************************************************************************)
\* a speech frame is among the frames
HasSpeech(frames) == \E i \in 1..Len(frames) : frames[i] = "speech"

\* the number of non-speech frames that end the frames
TrailingSilence(frames) ==
    Len(frames) - SetMax({0} \cup {i \in 1..Len(frames) : frames[i] = "speech"})

\* the frames from the first speech frame on
FromFirstSpeech(frames) ==
    SubSeq(frames, SetMin({i \in 1..Len(frames) : frames[i] = "speech"}),
           Len(frames))

\* C10: an iteration of _listen_loop finalizes an utterance exactly when a
\* speech frame has started one and silence_threshold consecutive non-speech
\* frames have been read since the last speech frame, and hands on the frames
\* from the first speech frame; a speech frame sets the silence counter to 0
\* and finalizes nothing; non-speech frames read while idle are not kept, not
\* finalized and not forwarded; nothing is forwarded without a finalization.
C10_SegmenterFinalizes ==
    loop.frame # "none" =>
        /\ loop.finalized <=>
               (HasSpeech(loop.frames)
                   /\ TrailingSilence(loop.frames) = silence_threshold)
        /\ loop.finalized =>
               (loop.utterance = FromFirstSpeech(loop.frames) /\ cycle.kind = "audio")
        /\ loop.frame = "speech" => (silence_count = 0 /\ ~loop.finalized)
        /\ ~HasSpeech(loop.frames) => (~loop.finalized /\ audio_chunks = <<>>)
        /\ ~loop.finalized => cycle.kind = "none"

C10_FinalizedAfterPause ==
    /\ loop.finalized
    /\ Len(loop.utterance) = Len(loop.frames) - 1
    /\ cycle.kind = "audio"
    /\ cycle.forwarded
    /\ Head(loop.frames) = "silence"
    /\ \E i, j \in 1..Len(loop.utterance) :
          i < j /\ loop.utterance[i] = "silence" /\ loop.utterance[j] = "speech"

(***************************************************************************)
(* C11: the minimum number of speech frames                                *)
(***************************************************************************)
\* the number of frames of an utterance classified as speech
SpeechCount(frames) ==
    Cardinality({i \in 1..Len(frames) : is_speech(frames[i])})

\* C11: a finalized utterance is passed to transcription only if it holds at
\* least min_speech_chunks frames classified as speech; an utterance with
\* fewer is dropped: no transcription, no matcher run, no dispatch.
C11_MinimumSpeechFrames ==
    (loop.finalized /\ cycle.kind = "audio") =>
        /\ cycle.forwarded => SpeechCount(loop.utterance) >= min_speech_chunks
        /\ SpeechCount(loop.utterance) < min_speech_chunks =>
              /\ ~cycle.forwarded
              /\ ~cycle.transcribed
              /\ ~cycle.detected
              /\ cycle.sent = <<>>

(***************************************************************************)
(* C12: the loop survives the errors of an iteration                       *)
(***************************************************************************)
\* worker w has left "while self.recording"
LeftLoop(w) == workers[w].pc \in {"finally", "close", "clear", "done"}

\* C12: a thread leaves the read-segment-process cycle of _listen_loop only
\* when it observes the stop flag: after an iteration whose read of the audio
\* source raised, whose transcription failed or whose backend call failed,
\* the thread is still in the loop and goes on to the next read.
C12_LeavesOnStopOnly ==
    \A w \in 1..Len(workers) :
        /\ LeftLoop(w) => workers[w].left = "stop"
        /\ (loop.frame # "none" /\ recording) => ~LeftLoop(w)

(***************************************************************************)
(* C13: one worker loop at a time                                          *)
(***************************************************************************)
\* the threads that are in "while self.recording", reading the audio source
InLoop == {w \in 1..Len(workers) : workers[w].pc \in {"test", "read"}}

\* C13: after any serialized sequence of start_listening and stop_listening
\* calls (start twice in a row, start after a stop whose worker has not yet
\* left its loop), at most one worker loop is reading audio at any time.
C13_OneWorkerLoop == Cardinality(InLoop) <= 1

(***************************************************************************)
(* C14: the stream is released once, by its owner                          *)
(***************************************************************************)
\* C14: under every interleaving of stop_listening with _listen_loop no
\* stream is closed twice and no stream is read after it has been closed;
\* once the controller is idle and every thread has ended, every stream that
\* was opened has been closed exactly once.
C14_StreamReleasedOnce ==
    /\ \A id \in 1..Len(streams) :
          streams[id].closes <= 1 /\ ~streams[id].late_read
    /\ (control.pc = "idle" /\ \A w \in 1..Len(workers) : workers[w].pc = "done")
          => \A id \in 1..Len(streams) : streams[id].closes = 1

(***************************************************************************)
(* C15: add_variation while detect_wake_word runs                          *)
(***************************************************************************)
\* the profiles add_variation leaves behind when it runs alone
Variations == {add_variation(aida_detector, v) : v \in AddedVariations}

\* C15: a detection that runs while add_variation runs on the controller
\* thread observes the profile entirely before or entirely after the call: it
\* is not disturbed in its iteration over the variation set and returns what
\* detect_wake_word returns on the profile before or on the profile after.
C15_ConsistentSnapshot ==
    /\ detecting.stage # "raised"
    /\ detecting.stage = "done" =>
          \E D \in {aida_detector} \cup Variations :
             detecting.result \in detect_wake_word(detecting.text, D)

(***************************************************************************)
(* C16: native transcription first, the remote one as the fallback         *)
(***************************************************************************)
\* the native attempt gave a text: the engine is there, did not raise,
\* reported success and returned text that is not empty
NativeText(native) ==
    native.available /\ ~native.raised /\ native.success /\ strip(native.text) # <<>>

\* C16: in the transcription step of both handlers the native engine is tried
\* first when it is available; the remote transcription call is made if and
\* only if the native attempt was impossible, raised, reported failure or
\* returned empty text, and at most once per utterance; when the native engine
\* returns non-empty text, that text is the transcription and the remote path
\* is not called.
C16_NativeFirstRemoteFallback ==
    cycle.kind = "transcription" =>
        /\ cycle.native.available => cycle.native_calls = 1
        /\ cycle.remote_calls <= 1
        /\ cycle.remote_calls = 1 <=> ~NativeText(cycle.native)
        /\ NativeText(cycle.native) => cycle.text = strip(cycle.native.text)

(***************************************************************************)
(* Properties of the matcher (checked under SpecDetect)                    *)
(***************************************************************************)
\* the tokens of the text the matcher was given
Tokens == findall_words(lower(detecting.text))

\* the positions of the tokens that are members of the variation set
ExactTokens == {i \in 1..Len(Tokens) : Tokens[i] \in detector.variations}

FuzzyResult == fuzzy_match(Tokens, detector)

PhoneticResult == phonetic_match(Tokens, detector)

MultiwordHits ==
    {r \in multiword_match(strip(lower(detecting.text)), detector) : r.detected}

PhoneticHit == detector.phonetic_matching /\ PhoneticResult.detected

\* C18: detect_wake_word tries exact, fuzzy, phonetic (only if enabled) and
\* multi-word matching in that order and returns the result of the first
\* strategy that hits: a fuzzy result only if no token is an exact variation,
\* a phonetic result only if neither exact nor fuzzy hit (and phonetic
\* matching is enabled), a multi-word result only if none of the three
\* earlier strategies hit; on a text that is not empty, a strategy that hits
\* when the earlier ones have not gives the result.
C18_FirstStrategyThatHits ==
    detecting.stage = "done" =>
        LET result == detecting.result
        IN  /\ result.detected =>
                  result.method \in {"exact", "fuzzy", "phonetic", "multiword"}
            /\ result.method = "exact" <=> ExactTokens # {}
            /\ result.method = "fuzzy" =>
                  ExactTokens = {} /\ result = FuzzyResult
            /\ result.method = "phonetic" =>
                  /\ ExactTokens = {} /\ ~FuzzyResult.detected
                  /\ PhoneticHit /\ result = PhoneticResult
            /\ result.method = "multiword" =>
                  /\ ExactTokens = {} /\ ~FuzzyResult.detected /\ ~PhoneticHit
                  /\ result \in MultiwordHits
            /\ (detecting.text # <<>> /\ ExactTokens = {}) =>
                  /\ FuzzyResult.detected => result = FuzzyResult
                  /\ (~FuzzyResult.detected /\ PhoneticHit) => result = PhoneticResult
                  /\ (~FuzzyResult.detected /\ ~PhoneticHit /\ MultiwordHits # {})
                        => result \in MultiwordHits

C18_FuzzyBeforePhonetic ==
    /\ detecting.stage = "done"
    /\ detecting.result.method = "fuzzy"
    /\ detecting.result.matched_word # NoneWord
    /\ PhoneticHit
    /\ PhoneticResult.matched_word = detecting.result.matched_word

\* some token reaches the similarity threshold against some variation
MeetsThreshold ==
    \E i \in 1..Len(Tokens), v \in detector.variations :
        RatGe(ratio(Tokens[i], v), detector.similarity_threshold)

\* some token's phonetic code is in the precomputed code set
CodeInSet ==
    \E i \in 1..Len(Tokens) : soundex(Tokens[i]) \in detector.soundex_codes

\* some multi-word variation reaches the threshold against the whole text
MultiwordMeetsThreshold ==
    \E v \in detector.variations :
        /\ find(v, <<" ">>) # 0
        /\ RatGe(ratio(clean_text(strip(lower(detecting.text))), v),
                 detector.similarity_threshold)

\* C19: for every profile and every text, if no token meets the fuzzy
\* threshold against a variation, no token's phonetic code is in the
\* precomputed code set and no multi-word variation meets the threshold
\* against the whole text, then detect_wake_word returns detected = false
\* with null method, null matched phrase and confidence 0.
C19_NoHitNoDetection ==
    (detecting.stage = "done" /\ ~MeetsThreshold /\ ~CodeInSet
        /\ ~MultiwordMeetsThreshold) =>
        /\ ~detecting.result.detected
        /\ detecting.result.method = "None"
        /\ detecting.result.matched_word = NoneWord
        /\ detecting.result.confidence = <<0, 1>>

\* the tokens that are not on the blacklist
Unlisted == SelectSeq(Tokens, LAMBDA word : word \notin common_words_blacklist)

\* C20: for every profile and every threshold a blacklisted token never
\* produces a fuzzy detection: no result with method fuzzy has a blacklisted
\* word as its matched phrase, and the best fuzzy score and word are those of
\* the tokens that are not blacklisted.
C20_BlacklistNeverFuzzy ==
    detecting.stage = "done" =>
        /\ FuzzyResult.matched_word \notin common_words_blacklist
        /\ FuzzyResult = fuzzy_match(Unlisted, detector)
        /\ detecting.result.method = "fuzzy" =>
              /\ detecting.result.matched_word \notin common_words_blacklist
              /\ detecting.result = fuzzy_match(Unlisted, detector)

C20_BlacklistedWouldPass ==
    /\ detecting.stage = "done"
    /\ detecting.result.method # "fuzzy"
    /\ \E i \in 1..Len(Tokens) :
          /\ Tokens[i] \in common_words_blacklist
          /\ \E v \in detector.variations :
                /\ v[1] = Tokens[i][1]
                /\ RatGe(ratio(Tokens[i], v),
                         RatMax(<<3, 4>>, detector.similarity_threshold))

(***************************************************************************)
(* The profile's own specification: a detector constructed from a wake     *)
(* word and custom variations as the caller wrote them, then add_variation *)
(* calls, each from entry to return                                        *)
(***************************************************************************)
s_Aida == <<" ", "A", "i", "d", "a", " ">>

s_Jarvis == <<" ", "J", "a", "r", "v", "i", "s", " ">>

s_AIDA == <<"A", "I", "D", "A">>

\* the wake words the constructor is called with
ProfileWakeWords == {s_aida, s_Aida, s_apartment}

\* the custom_variations lists the constructor is called with
ProfileCustoms == {<<>>, <<s_Jarvis>>}

\* the arguments of add_variation: new variations, variations whose
\* normalised form is already in the set, the empty text, a blank one and
\* one without a letter
ProfileVariations == {s_jarvis, s_Jarvis, s_ok_jarvis, s_AIDA, <<>>, t_blank, t_marks}

\* after WakeWordDetector(wake_word, 0.6, phonetic_matching, custom_variations);
\* control.arg keeps the wake word as the caller wrote it
InitProfile ==
    /\ handler = "modular"
    /\ now = StartTime
    /\ wake_word_detected = FALSE
    /\ wake_word_only_mode = TRUE
    /\ last_wake_word_time = 0
    /\ conversation_history = <<>>
    /\ audio_chunks = <<>>
    /\ silence_count = 0
    /\ speech_detected = FALSE
    /\ timeout_check_counter = 0
    /\ cycle = NoCycle
    /\ loop = NoFrame
    /\ calls = 0
    /\ produced = <<>>
    /\ recording = FALSE
    /\ stream = 0
    /\ streams = <<>>
    /\ workers = <<>>
    /\ \E wake_word \in ProfileWakeWords, phonetic_matching \in BOOLEAN,
          custom_variations \in ProfileCustoms :
         /\ control = [pc |-> "idle", made |-> 0, arg |-> wake_word]
         /\ detector = WakeWordDetector(wake_word, <<3, 5>>, phonetic_matching,
                                        custom_variations)
    /\ detecting = NoDetecting

\* add_variation(variation), from entry to return; detecting keeps the
\* argument and the variation set the call found
CallAddVariation ==
    /\ \E variation \in ProfileVariations :
         /\ detector' = add_variation(detector, variation)
         /\ detecting' = [stage |-> "added", text |-> variation,
                          seen |-> detector.variations, result |-> no_detection]
    /\ UNCHANGED <<OtherVars, control>>

NextProfile == CallAddVariation

SpecProfile == InitProfile /\ [][NextProfile]_vars

(***************************************************************************)
(* Properties of add_variation and of the constructor (checked under       *)
(* SpecProfile)                                                            *)
(***************************************************************************)
\* C21: add_variation is idempotent: after add_variation(v) a second
\* add_variation(v) leaves the variation set and the phonetic-code set as
\* they are, and a call whose normalised argument (lower-cased, trimmed) is
\* empty or was already in the variation set leaves the set, and so its
\* size, unchanged
C21_AddVariationIdempotent ==
    detecting.stage = "added" =>
        LET clean_var == strip(lower(detecting.text))
        IN  /\ add_variation(detector, detecting.text) = detector
            /\ (clean_var = <<>> \/ clean_var \in detecting.seen) =>
                   /\ Cardinality(detector.variations) = Cardinality(detecting.seen)
                   /\ detector.variations = detecting.seen

\* a variation is added in normalised form, with its code, and then given
\* again as the caller wrote it
C21_AddedThenGivenAgain ==
    /\ detecting.stage = "added"
    /\ detecting.text = s_Jarvis
    /\ s_jarvis \in detecting.seen
    /\ s_ok_jarvis \in detector.variations
    /\ soundex(s_jarvis) \in detector.soundex_codes
    /\ s_jarvis \notin build_variations(detector.wake_word, <<>>)

\* C22: in every state of a detector, from its construction with any custom
\* variations through any sequence of add_variation calls, the variation set
\* contains the primary wake phrase in normalised form (lower-cased, trimmed)
C22_PrimaryPhraseInVariations ==
    /\ strip(lower(control.arg)) \in detector.variations
    /\ detector.wake_word = strip(lower(control.arg))

\* a detector constructed from " Aida " and a custom variation, after two
\* add_variation calls that changed the set
C22_AfterConstructionAndAdds ==
    /\ control.arg = s_Aida
    /\ detecting.stage = "added"
    /\ {s_jarvis, s_ok_jarvis, t_marks} \subseteq detector.variations
    /\ s_Aida \notin detector.variations

(***************************************************************************)
(* Properties of the matcher, continued (checked under SpecDetect)         *)
(***************************************************************************)
\* C23: detect_wake_word is a deterministic function of the text and of the
\* contents of the profile: a call returns the one result that the text and
\* the variation set determine (detected, method, matched phrase,
\* confidence), whatever the iteration order of the set, and it leaves the
\* profile as it was
C23_DeterministicAndPure ==
    [][detecting'.stage = "done" =>
          /\ detector' = detector
          /\ detect_wake_word(detecting'.text, detector) = {detecting'.result}]_vars

(***************************************************************************)
(* The extraction's specification: _extract_command_after_wake_word on one *)
(* transcription after another, called with a given matched phrase or with *)
(* the phrase detect_wake_word reports for the transcription               *)
(***************************************************************************)
t_lights ==
    <<"a", "i", "d", "a", " ", "t", "u", "r", "n", " ", "o", "n", " ", "t",
      "h", "e", " ", "l", "i", "g", "h", "t", "s">>

c_lights ==
    <<"t", "u", "r", "n", " ", "o", "n", " ", "t", "h", "e", " ", "l", "i",
      "g", "h", "t", "s">>

t_Lights ==
    <<"H", "e", "y", " ", "A", "I", "D", "A", " ", " ", "T", "u", "r", "n",
      " ", "O", "n", " ">>

t_hey ==
    <<"h", "e", "y", " ", "a", "i", "d", "a", " ", "w", "h", "a", "t", " ",
      "t", "i", "m", "e", " ", "i", "s", " ", "i", "t">>

t_comma ==
    <<"a", "i", "d", "a", ",", " ", "c", "a", "n", " ", "y", "o", "u", " ",
      "p", "l", "a", "y", " ", "s", "o", "m", "e", " ", "m", "u", "s", "i",
      "c">>

c_music ==
    <<"p", "l", "a", "y", " ", "s", "o", "m", "e", " ", "m", "u", "s", "i",
      "c">>

t_please ==
    <<"a", "i", "d", "a", " ", "p", "l", "e", "a", "s", "e", " ", "s", "e",
      "t", " ", "a", " ", "t", "i", "m", "e", "r", " ", "f", "o", "r", " ",
      "5", " ", "m", "i", "n", "u", "t", "e", "s">>

c_timer ==
    <<"s", "e", "t", " ", "a", " ", "t", "i", "m", "e", "r", " ", "f", "o",
      "r", " ", "5", " ", "m", "i", "n", "u", "t", "e", "s">>

t_and_then ==
    <<"a", "i", "d", "a", " ", "a", "n", "d", " ", "t", "h", "e", "n", " ",
      "t", "u", "r", "n", " ", "o", "f", "f", " ", "t", "h", "e", " ", "t",
      "v">>

t_Then ==
    <<"A", "i", "d", "a", " ", "T", "h", "e", "n", " ", "D", "i", "m", " ",
      "I", "t">>

t_comma_then ==
    <<"a", "i", "d", "a", " ", ",", " ", "t", "h", "e", "n", " ", "g", "o">>

t_twice ==
    <<"a", "i", "d", "a", " ", "t", "e", "l", "l", " ", "a", "i", "d", "a",
      " ", "s", "t", "o", "p">>

t_volume ==
    <<"a", "p", "a", "r", "t", "m", "e", "n", "t", " ", "l", "o", "w", "e",
      "r", " ", "t", "h", "e", " ", "v", "o", "l", "u", "m", "e">>

c_volume ==
    <<"l", "o", "w", "e", "r", " ", "t", "h", "e", " ", "v", "o", "l", "u",
      "m", "e">>

t_Volume ==
    <<"O", "K", " ", "A", "p", "a", "r", "t", "m", "e", "n", "t", ",", " ",
      "L", "o", "w", "e", "r", " ", "i", "t", "!">>

t_world == <<"H", "e", "l", "l", "o", ",", " ", "W", "o", "r", "l", "d">>

t_apartmint_tv ==
    <<"a", "p", "a", "r", "t", "m", "i", "n", "t", " ", "t", "u", "r", "n",
      " ", "o", "f", "f", " ", "t", "h", "e", " ", "t", "v">>

c_tv ==
    <<"t", "u", "r", "n", " ", "o", "f", "f", " ", "t", "h", "e", " ", "t",
      "v">>

s_apartement == <<"a", "p", "a", "r", "t", "e", "m", "e", "n", "t">>

s_apartmint == <<"a", "p", "a", "r", "t", "m", "i", "n", "t">>

\* a longer word that contains the wake word, before the wake word
t_apartments ==
    <<"a", "p", "a", "r", "t", "m", "e", "n", "t", "s", " ", "a", "r", "e",
      " ", "c", "o", "l", "d", " ", "a", "p", "a", "r", "t", "m", "e", "n",
      "t", " ", "h", "e", "a", "t", " ", "o", "n">>

\* the transcriptions the extraction is given
ExtractTexts ==
    {t_aida, t_lights, t_Lights, t_hey, t_comma, t_please, t_and_then, t_Then,
     t_comma_then, t_twice, t_volume, t_Volume, t_world, t_apartmint_tv,
     t_apartments}

\* the matched phrases the extraction is called with
ExtractWords == {s_aida, s_apartment, s_apartmint, s_jarvis}

\* the handler's detector: the configuration wake word "apartment" with the
\* variation "aida", and wake word "aida" with the variations "apartment"
\* and "apartement"
ExtractProfiles ==
    {wake_word_detector,
     WakeWordDetector(s_aida, <<3, 5>>, TRUE, <<s_apartment, s_apartement>>)}

\* observation of an extraction: the transcription, the matched phrase, the
\* method that matched it ("None" when the phrase was given) and the command
extraction(full_text, matched, method, command) ==
    [kind |-> "extract", text |-> full_text, matched |-> matched,
     method |-> method, command |-> command]

InitExtract ==
    /\ handler = "modular"
    /\ now = StartTime
    /\ wake_word_detected = FALSE
    /\ wake_word_only_mode = TRUE
    /\ last_wake_word_time = 0
    /\ conversation_history = <<>>
    /\ audio_chunks = <<>>
    /\ silence_count = 0
    /\ speech_detected = FALSE
    /\ timeout_check_counter = 0
    /\ cycle = NoCycle
    /\ loop = NoFrame
    /\ calls = 0
    /\ produced = <<>>
    /\ recording = FALSE
    /\ stream = 0
    /\ streams = <<>>
    /\ workers = <<>>
    /\ control = Idle(0)
    /\ detector \in ExtractProfiles
    /\ detecting = NoDetecting

\* _extract_command_after_wake_word(full_text, matched_wake_word)
ExtractCommand ==
    /\ \E full_text \in ExtractTexts, matched_wake_word \in ExtractWords :
         cycle' = extraction(full_text, matched_wake_word, "None",
                     extract_command_after_wake_word(full_text, matched_wake_word,
                                                     detector.variations))
    /\ UNCHANGED <<handler, now, SessionVars, LoopVars, loop, calls, produced,
                   ThreadVars, DetectorVars>>

\* _process_audio_chunks: detect_wake_word(text) and, when it detects, the
\* extraction with the matched_word of its result
ExtractAfterDetection ==
    /\ \E text \in ExtractTexts :
         \E result \in detect_wake_word(text, detector) :
            /\ result.detected
            /\ result.matched_word # NoneWord
            /\ cycle' = extraction(text, result.matched_word, result.method,
                           extract_command_after_wake_word(text, result.matched_word,
                                                           detector.variations))
    /\ UNCHANGED <<handler, now, SessionVars, LoopVars, loop, calls, produced,
                   ThreadVars, DetectorVars>>

NextExtract == ExtractCommand \/ ExtractAfterDetection

SpecExtract == InitExtract /\ [][NextExtract]_vars

(***************************************************************************)
(* Properties of the command extraction (checked under SpecExtract)        *)
(***************************************************************************)
\* a text that begins with a comma or with the letters of a connective,
\* "and then" or "then", in any case
BeginsWithConnective(s) ==
    \E c \in {<<",">>, s_and_then, s_then} : startswith(lower(s), c)

FirstOccurrence == find(lower(cycle.text), lower(cycle.matched))

ExtractTokens == findall_words(lower(cycle.text))

\* the positions of the tokens that equal the matched phrase or are members
\* of the variation set
KnownTokens ==
    {i \in 1..Len(ExtractTokens) :
        \/ ExtractTokens[i] = lower(cycle.matched)
        \/ ExtractTokens[i] \in detector.variations}

\* C26: when the matched phrase does not occur in the lower-cased
\* transcription, the extraction returns the tokens after the first token
\* that equals the matched phrase or is a variation, joined by single
\* spaces, and the transcription unmodified when no token qualifies
C26_TokenSearchFallback ==
    (cycle.kind = "extract" /\ FirstOccurrence = 0) =>
        /\ KnownTokens = {} => cycle.command = cycle.text
        /\ \A i \in KnownTokens :
              (\A j \in KnownTokens : i <= j) =>
                  cycle.command = join(SubSeq(ExtractTokens, i + 1, Len(ExtractTokens)))

\* matched phrase "aida", "apartment lower the volume" has given
\* "lower the volume", and "Hello, World" would come back as it is
C26_LowerTheVolume ==
    /\ cycle.kind = "extract"
    /\ cycle.text = t_volume
    /\ cycle.matched = s_aida
    /\ FirstOccurrence = 0
    /\ cycle.command = c_volume
    /\ extract_command_after_wake_word(t_world, s_aida, detector.variations) = t_world

\* C29: with the matched phrase "aida" the extraction removes the politeness
\* fillers that follow the wake word: "aida, can you play some music" gives
\* "play some music" and "aida please set a timer for 5 minutes" gives
\* "set a timer for 5 minutes"
C29_PolitenessFillersRemoved ==
    (cycle.kind = "extract" /\ cycle.matched = s_aida) =>
        /\ cycle.text = t_comma => cycle.command = c_music
        /\ cycle.text = t_please => cycle.command = c_timer

\* C27: with the profile wake word "apartment", variation "aida", threshold
\* 0.6 and phonetic matching, "apartmint turn off the tv" is detected by the
\* fuzzy or the phonetic method, and the extraction with the matched phrase
\* of the result gives "turn off the tv"
C27_ApartmintFuzzyOrPhonetic ==
    (/\ cycle.kind = "extract"
     /\ cycle.method # "None"
     /\ detector = wake_word_detector
     /\ cycle.text = t_apartmint_tv) =>
        /\ cycle.method \in {"fuzzy", "phonetic"}
        /\ cycle.command = c_tv

(***************************************************************************)
(* Properties of the matcher on confusable words (checked under SpecDetect)*)
(***************************************************************************)
\* C28: with the profile wake word "apartment", custom variation "aida",
\* threshold 0.6 and phonetic matching, the texts "important meeting
\* tomorrow", "department store visit", "elephant in the room" and "hello
\* world" are not detected: none of the exact, fuzzy, phonetic and
\* multi-word strategies hits
C28_ConfusableWordsNotDetected ==
    (/\ detecting.stage = "done"
     /\ detector = wake_word_detector
     /\ detecting.text \in ConfusableTexts) =>
        /\ detecting.result = no_detection
        /\ ExactTokens = {}
        /\ ~FuzzyResult.detected
        /\ ~PhoneticResult.detected
        /\ MultiwordHits = {}

\* "department store visit" was given to the matcher and not detected,
\* although "department" is 0.84 similar to "apartment"
C28_DepartmentNotDetected ==
    /\ detecting.stage = "done"
    /\ detector = wake_word_detector
    /\ detecting.text = t_department_store
    /\ ~detecting.result.detected
    /\ RatGe(ratio(Tokens[1], s_apartment), <<3, 4>>)

(***************************************************************************)
(* The classifier's specification: the listening loop with iterations in   *)
(* which the speech classifier (webrtcvad's Vad.is_speech) raises          *)
(***************************************************************************)
\* the most frames of a run on which the classifier raises
MaxClassifierErrors == 1

\* what the classifier can raise on a frame: OSError, or an error of another
\* class (webrtcvad raises its own webrtcvad.Error, a plain Exception)
ClassifierErrors == {"OSError", "Error"}

\* one iteration of the modular loop in which the classifier raises:
\* VoiceActivityDetector.is_speech answers True for OSError and lets any other
\* error through, which no except clause of the loop catches
ClassifierRaised ==
    /\ handler = "modular"
    /\ At(1, "test")
    /\ recording
    /\ loop.read < MaxFrames
    /\ loop.unclassified < MaxClassifierErrors
    /\ "frame" \in ReadOutcomes
    /\ \E chunk \in ClassifierErrors :
         IF chunk = "OSError"
         THEN /\ Goto(1, "test")
              /\ Segmented(segment(audio_chunks, silence_count, speech_detected,
                                   chunk), chunk)
         ELSE /\ Leave(1, "crash")
              /\ loop' = [loop EXCEPT !.frame = chunk, !.finalized = FALSE,
                                      !.utterance = <<>>, !.read = @ + 1,
                                      !.unclassified = @ + 1,
                                      !.frames = Append(IF loop.finalized THEN <<>>
                                                        ELSE @, chunk)]
              /\ UNCHANGED <<audio_chunks, silence_count, speech_detected>>
    /\ cycle' = NoCycle
    /\ streams' = read(streams, stream)
    /\ UNCHANGED <<SessionVars, calls, recording, stream, control, DetectorVars>>
    /\ UNCHANGED <<handler, now, timeout_check_counter, produced>>

\* one iteration of the legacy loop in which the classifier, called by the
\* loop itself, raises: OSError is caught by the loop's except clause (logged,
\* sleep, next iteration) and any other error leaves the loop
LegacyClassifierRaised ==
    /\ handler = "legacy"
    /\ At(1, "test")
    /\ recording
    /\ loop.read < MaxFrames
    /\ loop.unclassified < MaxClassifierErrors
    /\ "frame" \in ReadOutcomes
    /\ \E chunk \in ClassifierErrors :
         LET due == timeout_check_counter + 1 >= timeout_check_interval
             checked == IF due THEN check_wake_word_timeout(Session, now)
                        ELSE Session
         IN  /\ timeout_check_counter' =
                    IF due THEN 0 ELSE timeout_check_counter + 1
             /\ IF chunk = "OSError" THEN Goto(1, "test") ELSE Leave(1, "crash")
             /\ loop' = [loop EXCEPT !.frame = chunk, !.finalized = FALSE,
                                     !.utterance = <<>>, !.read = @ + 1,
                                     !.unclassified = @ + 1,
                                     !.frames = Append(IF loop.finalized THEN <<>>
                                                       ELSE @, chunk)]
             /\ Apply([state |-> checked, obs |-> NoCycle])
    /\ streams' = read(streams, stream)
    /\ UNCHANGED <<audio_chunks, silence_count, speech_detected>>
    /\ UNCHANGED <<recording, stream, control, DetectorVars>>
    /\ UNCHANGED <<handler, now, produced>>

\* the thread's finally clause after it has left the loop
WorkerCleanup == WorkerFinally(1) \/ WorkerClose(1) \/ WorkerClear(1)

NextClassify ==
    \/ ListenLoop
    \/ LegacyListenLoop
    \/ ClassifierRaised
    \/ LegacyClassifierRaised
    \/ WorkerCleanup

SpecClassify == InitListen /\ [][NextClassify]_vars

\* C30: when the speech classifier raises an error on a frame, the segmenter
\* treats the frame as speech (it is appended to the current utterance, one
\* is started if the loop was idle, and the silence counter is 0) and the
\* error does not reach the listening loop, which goes on; in the modular
\* handler and in the legacy loop
C30_ClassifierErrorIsSpeech ==
    loop.frame \in ClassifierErrors =>
        /\ audio_chunks # <<>>
        /\ audio_chunks[Len(audio_chunks)] = loop.frame
        /\ speech_detected
        /\ silence_count = 0
        /\ workers[1].pc = "test"
        /\ workers[1].left = "none"

(***************************************************************************)
(* The quiet room's specification: the listening loop while a command      *)
(* window is open, the clock advances and only non-speech frames arrive    *)
(***************************************************************************)
\* the most iterations of the loop between two readings of the clock
MaxQuiet == 101

\* get_status(): the fields of the snapshot that tell the session's mode
status(S) ==
    [kind |-> "status", recording |-> recording,
     wake_word_detected |-> S.wake_word_detected,
     wake_word_only_mode |-> S.wake_word_only_mode,
     conversation_history_length |-> Len(S.conversation_history)]

\* the loop is idle and a cycle that heard the wake phrase with nothing after
\* it has just opened the command window (handler.py 200-201, 219;
\* voice_commands.py 543-545); the legacy loop's counter is anywhere in its
\* range
InitQuiet ==
    /\ handler \in {"modular", "legacy"}
    /\ now = StartTime
    /\ wake_word_detected = TRUE
    /\ wake_word_only_mode = (handler = "modular")
    /\ last_wake_word_time = StartTime
    /\ conversation_history = <<>>
    /\ audio_chunks = <<>>
    /\ silence_count = 0
    /\ speech_detected = FALSE
    /\ timeout_check_counter \in
          IF handler = "legacy"
          THEN {0, 1, timeout_check_interval \div 2, timeout_check_interval - 1}
          ELSE {0}
    /\ cycle = NoCycle
    /\ loop = NoFrame
    /\ calls = 0
    /\ produced = <<>>
    /\ recording = TRUE
    /\ stream = 1
    /\ streams = <<OpenStream>>
    /\ workers = <<[NewWorker EXCEPT !.pc = "test"]>>
    /\ control = Idle(MaxControl - 1)
    /\ detector = wake_word_detector
    /\ detecting = NoDetecting

\* one iteration of the modular loop on a non-speech frame while no utterance
\* is under way: nothing but the read and the segmenter
QuietIteration ==
    /\ handler = "modular"
    /\ At(1, "test")
    /\ recording
    /\ ~speech_detected
    /\ loop.read < MaxQuiet
    /\ "frame" \in ReadOutcomes
    /\ AfterRead(1, "frame")
    /\ Segmented(segment(audio_chunks, silence_count, speech_detected, "silence"),
                 "silence")
    /\ cycle' = NoCycle
    /\ streams' = read(streams, stream)
    /\ UNCHANGED <<SessionVars, calls, recording, stream, control, DetectorVars>>
    /\ UNCHANGED <<handler, now, timeout_check_counter, produced>>

\* one iteration of the legacy loop on a non-speech frame while no utterance
\* is under way: the periodic timeout check, the read and the segmenter
LegacyQuietIteration ==
    /\ handler = "legacy"
    /\ At(1, "test")
    /\ recording
    /\ ~speech_detected
    /\ loop.read < MaxQuiet
    /\ "frame" \in ReadOutcomes
    /\ LET due == timeout_check_counter + 1 >= timeout_check_interval
           checked == IF due THEN check_wake_word_timeout(Session, now)
                      ELSE Session
       IN  /\ timeout_check_counter' =
                  IF due THEN 0 ELSE timeout_check_counter + 1
           /\ Apply([state |-> checked, obs |-> NoCycle])
    /\ AfterRead(1, "frame")
    /\ Segmented(legacy_segment(audio_chunks, silence_count, speech_detected,
                                "silence"), "silence")
    /\ streams' = read(streams, stream)
    /\ UNCHANGED <<recording, stream, control, DetectorVars>>
    /\ UNCHANGED <<handler, now, produced>>

\* the clock is read later; loop counts the iterations since
Elapse ==
    /\ \E d \in {60, 61} :
         /\ now + d <= StartTime + MaxElapsed
         /\ now' = now + d
    /\ loop' = NoFrame
    /\ cycle' = NoCycle
    /\ UNCHANGED <<ThreadVars, DetectorVars, handler, SessionVars, LoopVars, calls,
                   produced>>

\* the controller thread takes a status snapshot
GetStatus ==
    /\ cycle' = status(Session)
    /\ UNCHANGED <<ThreadVars, DetectorVars, handler, now, SessionVars, LoopVars,
                   loop, calls, produced>>

NextQuiet == QuietIteration \/ LegacyQuietIteration \/ Elapse \/ GetStatus

SpecQuiet == InitQuiet /\ [][NextQuiet]_vars

\* C31: while the loop runs, once the timeout of an open command window has
\* elapsed the session is WAKE_ONLY after at most timeout_check_interval
\* (100) further iterations, though no utterance is finalized, and a status
\* snapshot taken after them reports no open window
C31_StaleWindowReset ==
    (expired /\ loop.read >= timeout_check_interval) =>
        /\ mode = "WAKE_ONLY"
        /\ ~wake_word_detected
        /\ cycle.kind = "status" =>
              ~cycle.wake_word_detected /\ cycle.wake_word_only_mode

\* C32: a successful dispatch appends the user entry before the backend is
\* invoked, so that the history posted to the backend ends with the user entry
\* of the command and holds, before it, only entries the history already had;
\* the assistant entry is appended after the answer, and the entries the
\* dispatch appends, before trimming, are exactly the user entry and the
\* assistant entry, in that order (checked under SpecHistory)
C32_UserBeforeBackendAssistantAfter ==
    [][(cycle'.kind = "dispatch" /\ ~failure(cycle'.reply)) =>
          LET request == cycle'.request
              before == SubSeq(request, 1, Len(request) - 1)
          IN  /\ request # <<>>
              /\ request[Len(request)] = user_entry(cycle'.text)
              /\ before = last_entries(conversation_history, Len(before))
              /\ produced' = produced \o <<user_entry(cycle'.text),
                                           assistant_entry(cycle'.reply.response)>>
              /\ conversation_history' # <<>>
              /\ conversation_history'[Len(conversation_history')]
                     = assistant_entry(cycle'.reply.response)]_vars

(***************************************************************************)
(* C33: the frames of a finalized utterance (checked under SpecClassify)   *)
(***************************************************************************)
\* the handler took the frame for speech: the modular loop asks
\* VoiceActivityDetector.is_speech, the legacy loop the classifier itself
TakenForSpeech(frame) ==
    IF handler = "modular" THEN is_speech(frame) ELSE frame = "speech"

\* C33: a finalized utterance is exactly the frames read from the speech frame
\* that started it through the non-speech frame that finalized it, in order,
\* none dropped and none repeated: its first frame is speech, its last
\* silence_threshold frames are non-speech, the non-speech frames read while
\* idle before it are not in it, and after the finalization the buffer is
\* empty, the silence counter 0 and the segmenter idle.
C33_UtteranceIsTheFramesRead ==
    loop.finalized =>
        LET started == {i \in 1..Len(loop.frames) : TakenForSpeech(loop.frames[i])}
            utterance == loop.utterance
            pause == (Len(utterance) - silence_threshold + 1)..Len(utterance)
        IN  /\ started # {}
            /\ utterance = SubSeq(loop.frames, SetMin(started), Len(loop.frames))
            /\ Len(utterance) > silence_threshold
            /\ TakenForSpeech(utterance[1])
            /\ \A i \in pause : ~TakenForSpeech(utterance[i])
            /\ audio_chunks = <<>>
            /\ silence_count = 0
            /\ ~speech_detected

(***************************************************************************)
(* C34: the status flag wake_word_only_mode (checked under Spec)           *)
(***************************************************************************)
\* C34: in every reachable state of either handler wake_word_only_mode is the
\* negation of the command window being open: it is false exactly when
\* wake_word_detected is true, and true otherwise.
C34_ModeFlagNegatesWindow == wake_word_only_mode = ~wake_word_detected

(***************************************************************************)
(* C35: what moves last_wake_word_time (checked under Spec)                *)
(***************************************************************************)
\* C35: last_wake_word_time changes only in a cycle in which the matcher
\* detects the wake phrase, and then to the time of the cycle; a cycle that
\* dispatches a command without the wake phrase while COMMAND_ACTIVE leaves
\* it as it was, and is within wake_word_timeout of the last detection,
\* however many commands were dispatched since.
C35_OnlyDetectionMovesTimestamp ==
    [][/\ last_wake_word_time' # last_wake_word_time =>
              (cycle'.kind # "none" /\ cycle'.detected
                  /\ last_wake_word_time' = now)
       /\ (cycle'.kind # "none" /\ ~cycle'.detected /\ cycle'.sent # <<>>) =>
              /\ mode = "COMMAND_ACTIVE"
              /\ last_wake_word_time' = last_wake_word_time
              /\ now - last_wake_word_time <= wake_word_timeout]_vars

C35_SecondCommandInWindow ==
    /\ cycle.kind = "audio"
    /\ cycle.mode = "COMMAND_ACTIVE"
    /\ ~cycle.detected
    /\ cycle.sent = <<t_cmd>>
    /\ calls = 2
    /\ last_wake_word_time < now
    /\ mode = "COMMAND_ACTIVE"

(***************************************************************************)
(* C36: the shape of a detection (checked under SpecDetect)                *)
(***************************************************************************)
\* C36: whenever detect_wake_word returns detected = true, the method is one
\* of exact, fuzzy, phonetic and multiword, the matched phrase is not null and
\* 0 < confidence <= 1; for every text, a text without tokens included, and
\* every threshold, 0 included.
C36_DetectionIsWellFormed ==
    (detecting.stage = "done" /\ detecting.result.detected) =>
        /\ detecting.result.method \in {"exact", "fuzzy", "phonetic", "multiword"}
        /\ detecting.result.matched_word # NoneWord
        /\ RatGt(detecting.result.confidence, <<0, 1>>)
        /\ RatGe(<<1, 1>>, detecting.result.confidence)

(***************************************************************************)
(* C37: the command after an exact detection (checked under SpecExtract)   *)
(***************************************************************************)
\* the positions in the transcription at which the matched phrase stands as a
\* token of its own: no word character before it and none after it
MatchedTokenAt ==
    LET text == lower(cycle.text)
        phrase == lower(cycle.matched)
    IN  {i \in 1..Len(text) :
            /\ i + Len(phrase) - 1 <= Len(text)
            /\ SubSeq(text, i, i + Len(phrase) - 1) = phrase
            /\ (i > 1 => ~IsWordChar(text[i - 1]))
            /\ (i + Len(phrase) <= Len(text) => ~IsWordChar(text[i + Len(phrase)]))}

\* C37: after an exact detection the extracted command is the text that
\* follows the matched token itself (trimmed, one leading comma or connective
\* removed): the extraction never starts from an earlier place where the
\* matched phrase occurs inside a longer word.
C37_CommandFollowsMatchedToken ==
    (cycle.kind = "extract" /\ cycle.method = "exact") =>
        /\ MatchedTokenAt # {}
        /\ cycle.command =
              strip(remove_leading_connective(strip(
                  drop(cycle.text,
                       SetMin(MatchedTokenAt) + Len(cycle.matched) - 1))))

(***************************************************************************)
(* The specification without a classifier: the modular listening loop when *)
(* webrtcvad is missing or failed to initialize (self.vad.vad is None)     *)
(***************************************************************************)
\* one iteration of the modular loop without a classifier: the read, the
\* segmenter on a frame no classifier has seen, and the processing of a
\* finalized utterance
ListenLoopUnclassified ==
    /\ handler = "modular"
    /\ At(1, "test")
    /\ recording
    /\ loop.read < MaxFrames
    /\ \E outcome \in Reads :
         /\ AfterRead(1, outcome)
         /\ IF outcome = "frame"
            THEN LET chunk == "unclassified"
                     seg == segment(audio_chunks, silence_count, speech_detected,
                                    chunk)
                 IN  /\ Segmented(seg, chunk)
                     /\ IF seg.finalized
                        THEN \E stt \in EngineResults, reply \in CycleReplies :
                               \E r \in Detections[strip(stt.text)] :
                                  Apply(process_audio_chunks(
                                      Session, seg.utterance, stt, r, reply, now))
                        ELSE /\ cycle' = NoCycle
                             /\ UNCHANGED <<SessionVars, calls>>
            ELSE /\ Failed
                 /\ cycle' = NoCycle
                 /\ UNCHANGED <<SessionVars, calls>>
    /\ streams' = IF stream = 0 THEN streams ELSE read(streams, stream)
    /\ UNCHANGED <<recording, stream, control, DetectorVars>>
    /\ UNCHANGED <<handler, now, timeout_check_counter, produced>>

NextUnclassified ==
    \/ ListenLoopUnclassified
    \/ StopFlag
    \/ StopCheck
    \/ StopClose
    \/ StopClear
    \/ WorkerExit

\* the modular handler, listening
InitUnclassified == InitListen /\ handler = "modular"

SpecUnclassified == InitUnclassified /\ [][NextUnclassified]_vars

\* C38: without a classifier every frame is taken for speech and the modular
\* segmenter never finalizes: from the first frame on it stays active with a
\* silence counter of 0, the buffer holds every frame read, one more after
\* each iteration, and nothing is transcribed or dispatched, until the loop
\* is stopped.
C38_NeverFinalizesWithoutClassifier ==
    /\ ~loop.finalized
    /\ audio_chunks = loop.frames
    /\ Len(audio_chunks) = loop.read - loop.errors
    /\ loop.frames # <<>> => (speech_detected /\ silence_count = 0)
    /\ cycle = NoCycle
    /\ calls = 0
    /\ conversation_history = <<>>

C38_BufferPastThreshold ==
    /\ Len(audio_chunks) > silence_threshold + min_speech_chunks
    /\ audio_chunks[Len(audio_chunks)] = "unclassified"
    /\ speech_detected
    /\ workers[1].pc = "done"
    /\ workers[1].left = "stop"

(***************************************************************************)
(* C39: no blank command reaches the backend (checked under Spec)          *)
(***************************************************************************)
\* C39: the voice path never sends an empty or whitespace-only command to the
\* backend, neither as the command that trails the wake phrase nor as the
\* whole transcription of an utterance heard while COMMAND_ACTIVE, and a
\* transcription of whitespace adds nothing to conversation_history.
C39_NoBlankCommandSent ==
    cycle.kind = "audio" =>
        /\ \A i \in 1..Len(cycle.sent) : strip(cycle.sent[i]) # <<>>
        /\ \A i \in 1..Len(conversation_history) :
              conversation_history[i].role = "user" =>
                  strip(conversation_history[i].content) # <<>>

C39_BlankHeardInWindow ==
    /\ cycle.kind = "audio"
    /\ cycle.mode = "COMMAND_ACTIVE"
    /\ ~cycle.expired
    /\ cycle.transcribed
    /\ cycle.text = t_blank
    /\ cycle.sent = <<>>
    /\ calls = 1
====
